---- MODULE Spec2Model ----
(***************************************************************************)
(* A model of cbcdb.main.DBManager (src/cbcdb/main.py): the connection     *)
(* scope, the statement helpers, the column type catalog and the value     *)
(* serializer.  The database server and the psycopg2 driver are modelled   *)
(* by what the code relies on: a transaction per connection, commit and    *)
(* rollback, and the context managers of connection and cursor.            *)
(***************************************************************************)
EXTENDS Integers, Sequences, FiniteSets, TLC

VARIABLES db, conn, curs, page_size, last, catalog, ser,
          asked, san, listening, pc, rand_port, probe, twin, settings

vars ==
    <<db, conn, curs, page_size, last, catalog, ser,
      asked, san, listening, pc, rand_port, probe, twin, settings>>

(***************************************************************************)
(* Bounds of the model.                                                    *)
(***************************************************************************)
MaxId == 2
MaxStmts == 2
MaxRows == 2

Ids == 1..MaxId

\* A ConfigurationService that nothing has made yet.
NoSettings == <<>>

(***************************************************************************)
(* Python values, as the helpers see them: None, bool, int, float (of      *)
(* which only NaN and the infinities matter here), str, date and datetime  *)
(* (naive, or aware with a UTC offset of sign, hours and minutes).         *)
(***************************************************************************)
PyVal(k, b, n, s, d, t, z) ==
    [kind |-> k, b |-> b, n |-> n, s |-> s, d |-> d, t |-> t, tz |-> z]

NoDate == <<0, 0, 0>>
NoTime == <<0, 0, 0>>
Naive == <<"", 0, 0>>

PyNone == PyVal("none", FALSE, 0, "", NoDate, NoTime, Naive)
PyBool(b) == PyVal("bool", b, 0, "", NoDate, NoTime, Naive)
PyInt(n) == PyVal("int", FALSE, n, "", NoDate, NoTime, Naive)
PyFloat(s) == PyVal("float", FALSE, 0, s, NoDate, NoTime, Naive)
PyStr(s) == PyVal("str", FALSE, 0, s, NoDate, NoTime, Naive)
PyDate(d) == PyVal("date", FALSE, 0, "", d, NoTime, Naive)
PyDateTime(d, t, z) == PyVal("datetime", FALSE, 0, "", d, t, z)

PyNaN == PyFloat("nan")
PyInf == PyFloat("inf")
PyNegInf == PyFloat("-inf")

Colors == {PyStr("red"), PyStr("blue")}

(***************************************************************************)
(* The test table (tests/test_db_manager.py, _prepare_test_table), as far  *)
(* as the statements below touch it: the columns id and color_name.  The   *)
(* table has no primary key and no unique constraint, so it may hold       *)
(* several rows with one identifier; color_name is NOT NULL.  Each row has *)
(* its place in the table (the system column ctid), which tells rows of    *)
(* equal content apart.  Nothing deletes rows, so the places are 1..n.     *)
(***************************************************************************)
MaxTable == 2

Row(i, c, k) == [id |-> i, color_name |-> c, ctid |-> k]

\* The rows a where clause id = i selects.
Matching(t, i) == {r \in t : r.id = i}

NotNullViolation == "null value in column color_name violates not-null constraint"

(***************************************************************************)
(* Statements as the caller writes them in the sql argument.  A script is  *)
(* the sequence of statements of one sql string (separated by ';').        *)
(*   insert: adds a row, raises when the color is null;                    *)
(*   update: sets the color of every row with that identifier, raises when *)
(*           there is such a row and the color is null;                    *)
(*   select: returns (color_name, id) of every row, by identifier and      *)
(*           place;                                                        *)
(*   select_columns: the metadata query, (column_name, data_type) of every *)
(*           column of the table in information_schema.columns;            *)
(*   fail:   raises at run time (such as a division by zero).              *)
(***************************************************************************)
Stmt(o, i, c) == [op |-> o, id |-> i, color_name |-> c]

Select == Stmt("select", 0, PyNone)
SelectColumns == Stmt("select_columns", 0, PyNone)
Fail == Stmt("fail", 0, PyNone)

Mutations ==
    {Stmt("insert", i, PyStr("red")) : i \in Ids} \cup {Stmt("update", i, PyStr("blue")) : i \in Ids}

RECURSIVE SeqsUpTo(_, _)
SeqsUpTo(S, n) ==
    IF n = 0 THEN {<<>>}
    ELSE LET shorter == SeqsUpTo(S, n - 1)
         IN  shorter \cup {Append(q, x) : q \in {p \in shorter : Len(p) = n - 1}, x \in S}

MutationScripts == SeqsUpTo(Mutations \cup {Fail}, MaxStmts) \ {<<>>}

ReadScripts == {<<Select>>, <<Fail>>}

(***************************************************************************)
(* The server: one statement, then a whole script, run inside the          *)
(* transaction of the connection (t is the transaction's working copy of   *)
(* the table).  A script stops at its first failing statement and keeps    *)
(* in t what the statements before it did.                                 *)
(***************************************************************************)
SortedRows(t) ==
    LET before(y, x) == y.id < x.id \/ (y.id = x.id /\ y.ctid < x.ctid)
        rank == [x \in t |-> Cardinality({y \in t : before(y, x)})]
    IN  [k \in 1..Cardinality(t) |->
            LET r == CHOOSE x \in t : rank[x] = k - 1
            IN  <<r.color_name, r.id>>]

RunStmt(t, s) ==
    CASE s.op = "insert" ->
            IF s.color_name = PyNone
            THEN [ok |-> FALSE, t |-> t, msg |-> NotNullViolation, rows |-> <<>>, desc |-> <<>>]
            ELSE [ok |-> TRUE, t |-> t \cup {Row(s.id, s.color_name, Cardinality(t) + 1)},
                  msg |-> "", rows |-> <<>>, desc |-> <<>>]
      [] s.op = "update" ->
            IF s.color_name = PyNone /\ Matching(t, s.id) # {}
            THEN [ok |-> FALSE, t |-> t, msg |-> NotNullViolation, rows |-> <<>>, desc |-> <<>>]
            ELSE [ok |-> TRUE,
                  t |-> {IF r.id = s.id THEN Row(r.id, s.color_name, r.ctid) ELSE r : r \in t},
                  msg |-> "", rows |-> <<>>, desc |-> <<>>]
      [] s.op = "select" ->
            [ok |-> TRUE, t |-> t, msg |-> "", rows |-> SortedRows(t),
             desc |-> <<"color_name", "id">>]
      [] OTHER ->
            [ok |-> FALSE, t |-> t, msg |-> "division by zero", rows |-> <<>>, desc |-> <<>>]

\* The one value of a set of one value.
The(S) == CHOOSE x \in S : TRUE

\* The script is run half by half, which is the statements in their order;
\* each statement runs on the table the statements before it left.
RECURSIVE RunScript(_, _)
RunScript(t, script) ==
    IF script = <<>>
    THEN [ok |-> TRUE, t |-> t, msg |-> "", rows |-> <<>>, desc |-> <<>>]
    ELSE IF Len(script) = 1 THEN The({RunStmt(now, script[1]) : now \in {t}})
    ELSE The({IF ~r.ok THEN r
              ELSE RunScript(r.t, SubSeq(script, Len(script) \div 2 + 1, Len(script))) :
                 r \in {RunScript(t, SubSeq(script, 1, Len(script) \div 2))}})

(***************************************************************************)
(* str() of a Python value, as str.format and the f-strings use it.        *)
(***************************************************************************)
Digit(n) ==
    CASE n = 0 -> "0" [] n = 1 -> "1" [] n = 2 -> "2" [] n = 3 -> "3" [] n = 4 -> "4"
      [] n = 5 -> "5" [] n = 6 -> "6" [] n = 7 -> "7" [] n = 8 -> "8" [] OTHER -> "9"

RECURSIVE NatText(_)
NatText(n) == IF n < 10 THEN Digit(n) ELSE NatText(n \div 10) \o Digit(n % 10)

IntText(n) == IF n < 0 THEN "-" \o NatText(-n) ELSE NatText(n)

Pad2(n) == IF n < 10 THEN "0" \o NatText(n) ELSE NatText(n)

Pad4(n) ==
    IF n < 10 THEN "000" \o NatText(n)
    ELSE IF n < 100 THEN "00" \o NatText(n)
    ELSE IF n < 1000 THEN "0" \o NatText(n)
    ELSE NatText(n)

IsoDate(d) == Pad4(d[1]) \o "-" \o Pad2(d[2]) \o "-" \o Pad2(d[3])

Clock(t) == Pad2(t[1]) \o ":" \o Pad2(t[2]) \o ":" \o Pad2(t[3])

\* The UTC offset as %z prints it (+HHMM) and as str() prints it (+HH:MM);
\* empty for a naive datetime.
OffsetZ(z) == IF z[1] = "" THEN "" ELSE z[1] \o Pad2(z[2]) \o Pad2(z[3])

OffsetColon(z) == IF z[1] = "" THEN "" ELSE z[1] \o Pad2(z[2]) \o ":" \o Pad2(z[3])

PyText(v) ==
    CASE v.kind = "none" -> "None"
      [] v.kind = "bool" -> IF v.b THEN "True" ELSE "False"
      [] v.kind = "int" -> IntText(v.n)
      [] v.kind = "float" -> v.s
      [] v.kind = "str" -> v.s
      [] v.kind = "date" -> IsoDate(v.d)
      [] OTHER -> IsoDate(v.d) \o " " \o Clock(v.t) \o OffsetColon(v.tz)

(***************************************************************************)
(* pandas.isnull of a scalar: None and NaN are null.                       *)
(***************************************************************************)
IsNull(v) == v.kind = "none" \/ v = PyNaN

(***************************************************************************)
(* The rows of a params list: each a Python list or a Python tuple of      *)
(* values.                                                                 *)
(***************************************************************************)
PyRow(k, v) == [kind |-> k, v |-> v]

convert_nan_to_none(params) ==
    [r \in 1..Len(params) |->
        IF params[r].kind = "list"
        THEN PyRow("list",
                   [k \in 1..Len(params[r].v) |->
                       IF IsNull(params[r].v[k]) \/ params[r].v[k] = PyInf
                          \/ params[r].v[k] = PyNegInf
                       THEN PyNone ELSE params[r].v[k]])
        ELSE IF params[r].kind = "tuple" THEN params[r]
        ELSE IF IsNull(params[r]) THEN PyNone ELSE params[r]]

(***************************************************************************)
(* Exceptions and results.  An exception carries its class, its message    *)
(* and the SQL text attached to it, if any was.                            *)
(***************************************************************************)
Exc(cls, msg) == [cls |-> cls, msg |-> msg, has_sql |-> FALSE, sql |-> <<>>]

NoExc == Exc("None", "")

Raised(s) == s.exc.cls # "None"

Out(k, v) == [kind |-> k, v |-> v]

OutNone == Out("None", <<>>)

(***************************************************************************)
(* What the driver is asked to do, in order: each call of connect, cursor, *)
(* execute, commit, rollback and the cursor's close, with the script an    *)
(* execute sent and the driver's error message when it raised.             *)
(***************************************************************************)
Ev(name, q, err) == [ev |-> name, q |-> q, err |-> err]

Log(s, name, q, err) == [s EXCEPT !.events = Append(@, Ev(name, q, err))]

(***************************************************************************)
(* The frame a call runs in: the committed table, the working copy of the  *)
(* open transaction, the connection and cursor objects, the instance's     *)
(* page size, whether the server accepts connections, and what the call    *)
(* has done, returned or raised so far; the instance's debug flag and what *)
(* the call has printed.                                                   *)
(***************************************************************************)
Frame(table, ps, ok) ==
    [db |-> table, txn |-> table, conn |-> "none", curs |-> "none", page_size |-> ps,
     connect_ok |-> ok, events |-> <<>>, depth |-> <<>>, exc |-> NoExc, out |-> OutNone,
     rows |-> <<>>, desc |-> <<>>, catalog |-> catalog, sqltext |-> "",
     debug |-> FALSE, sink |-> <<>>]

\* The frame of an instance made with debug_output_mode=True.
WithDebug(s) == [s EXCEPT !.debug = TRUE]

\* A debug line: its text and what it tells (a query, a number of rows).
Msg(text, arg) == [text |-> text, arg |-> arg]

\* A debug print that fails when it prints.
PrintDebugRaises(s, msg) ==
    IF s.debug
    THEN [s EXCEPT !.exc = Exc("OSError", "print"), !.out = OutNone]
    ELSE s

\* print(line): the line goes to standard output whatever the debug flag.
Stdout(s, line) == [s EXCEPT !.sink = Append(@, line)]

\* if self._debug_mode: print(f'DEBUG: {msg}')
_print_debug_output(s, msg) ==
    IF s.debug THEN Stdout(s, Msg("DEBUG: " \o msg.text, msg.arg)) ELSE s

Raise(s, e) == [s EXCEPT !.exc = e, !.out = OutNone]

Return(s, o) == [s EXCEPT !.out = o]

(***************************************************************************)
(* psycopg2.connect: a new connection, or OperationalError.                *)
(***************************************************************************)
\* A connect that tries once more when it is refused.
ConnectRetry(s) ==
    IF s.connect_ok
    THEN [Log(s, "connect", <<>>, "") EXCEPT !.conn = "open", !.txn = s.db]
    ELSE Raise(Log(Log(s, "connect", <<>>, "connection refused"),
                   "connect", <<>>, "connection refused"),
               Exc("OperationalError", "connection refused"))

Connect(s) ==
    IF s.connect_ok
    THEN [Log(s, "connect", <<>>, "") EXCEPT !.conn = "open", !.txn = s.db]
    ELSE Raise(Log(s, "connect", <<>>, "connection refused"),
               Exc("OperationalError", "connection refused"))

ConnCursor(s) == [Log(s, "cursor", <<>>, "") EXCEPT !.curs = "open"]

(***************************************************************************)
(* cursor.execute: an empty query is refused by the driver; any other      *)
(* script runs on the server in the connection's transaction.              *)
(***************************************************************************)
\* The frame after the server ran the script, r being what it answered.
Executed(s, sql, r) ==
    LET t == [Log(s, "execute", sql, r.msg) EXCEPT !.txn = r.t, !.rows = r.rows, !.desc = r.desc]
    IN  IF r.ok THEN t ELSE Raise(t, Exc("DatabaseError", r.msg))

DriverExecute(s, sql) ==
    IF sql = <<>>
    THEN Raise(Log(s, "execute", sql, "can't execute an empty query"),
               Exc("ProgrammingError", "can't execute an empty query"))
    ELSE IF sql = <<SelectColumns>>
    THEN [Log(s, "execute", sql, "") EXCEPT
             !.rows = [k \in 1..Len(s.catalog) |->
                          <<s.catalog[k].column_name, s.catalog[k].data_type>>],
             !.desc = <<"column_name", "data_type">>]
    ELSE Executed(s, sql, RunScript(s.txn, sql))

\* A helper that sends the statement again when the driver raised.
CursExecuteRetry(s, sql) ==
    LET e == DriverExecute(s, sql)
    IN  IF Raised(e) THEN DriverExecute([e EXCEPT !.exc = NoExc], sql) ELSE e

\* curs.execute(sql, params): the helpers call the driver once.
CursExecute(s, sql) == DriverExecute(s, sql)

\* A commit that does not reach the server.
CommitLost(s) == s

CommitTxn(s) == [s EXCEPT !.db = s.txn]

ConnCommit(s) == CommitTxn(Log(s, "commit", <<>>, ""))

ConnRollback(s) == [Log(s, "rollback", <<>>, "") EXCEPT !.txn = s.db]

(***************************************************************************)
(* The statement helpers.  Each method is entered twice: by the caller     *)
(* without a cursor, and by _database_connection_sub_method with the open  *)
(* cursor and connection.  The second entry is written first (the method   *)
(* with its `if curs:` branch taken), then the connection scope, then the  *)
(* first entry (the method with its `else:` branch taken).                 *)
(***************************************************************************)
Enter(s, name, has_curs) ==
    [s EXCEPT !.depth = Append(@, [method |-> name, curs |-> has_curs])]

execute_simple_curs(s0, sql, params) ==
    LET e == CursExecute(_print_debug_output(Enter(s0, "execute_simple", TRUE),
                                             Msg("Getting query", sql)),
                         sql)
    IN  IF Raised(e) THEN e
        ELSE Return(_print_debug_output(
                        ConnCommit(_print_debug_output(e, Msg("csr.execute complete.", <<>>))),
                        Msg("conn.commit complete.", <<>>)),
                    OutNone)

\* dict(zip(columns, row))
Dict(columns, row) ==
    [c \in {columns[k] : k \in 1..Len(columns)} |->
        row[CHOOSE k \in 1..Len(columns) :
                columns[k] = c /\ \A j \in (k + 1)..Len(columns) : columns[j] # c]]

DictRows(e) == Out("list", [k \in 1..Len(e.rows) |-> Dict(e.desc, e.rows[k])])

get_sql_list_dicts_curs(s0, sql, params) ==
    LET e == CursExecute(_print_debug_output(Enter(s0, "get_sql_list_dicts", TRUE),
                                             Msg("Getting query", sql)),
                         sql)
    IN  IF Raised(e) THEN e
        ELSE IF e.desc = <<>>
        THEN Raise(e, Exc("TypeError", "'NoneType' object is not iterable"))
        ELSE Return(e, DictRows(e))

FirstItems(e) == Out("list", [k \in 1..Len(e.rows) |-> e.rows[k][1]])

get_sql_single_item_list_curs(s0, sql, params) ==
    LET e == CursExecute(_print_debug_output(Enter(s0, "get_sql_single_item_list", TRUE),
                                             Msg("Getting query", sql)),
                         sql)
    IN  IF Raised(e) THEN e
        ELSE IF e.desc = <<>> THEN Raise(e, Exc("ProgrammingError", "no results to fetch"))
        ELSE Return(e, FirstItems(e))

\* fetchone gives the first row, a tuple, or None; the method returns the
\* first item of a tuple and anything else as it is.
FetchOne(e) == IF e.rows = <<>> THEN OutNone ELSE Out("value", e.rows[1][1])

get_single_result_curs(s0, sql, params) ==
    LET e == CursExecute(_print_debug_output(Enter(s0, "get_single_result", TRUE),
                                             Msg("Getting query", sql)),
                         sql)
    IN  IF Raised(e) THEN e
        ELSE IF e.desc = <<>> THEN Raise(e, Exc("ProgrammingError", "no results to fetch"))
        ELSE Return(e, FetchOne(e))

(***************************************************************************)
(* get_sql_dataframe hands the connection to pandas.read_sql_query, which  *)
(* opens a cursor of its own, executes, and on an error rolls back and     *)
(* raises its own DatabaseError naming the SQL and the driver's message.   *)
(***************************************************************************)
PandasError(e, sql) ==
    [cls |-> "pandas.DatabaseError", msg |-> e.exc.msg, has_sql |-> TRUE, sql |-> sql]

get_sql_dataframe_curs(s0, sql, params) ==
    LET e == CursExecute(Log(_print_debug_output(Enter(s0, "get_sql_dataframe", TRUE),
                                                 Msg("Getting query", sql)),
                             "cursor", <<>>, ""),
                         sql)
    IN  IF Raised(e) THEN Raise(ConnRollback(e), PandasError(e, sql))
        ELSE IF e.desc = <<>>
        THEN Raise(e, Exc("TypeError", "'NoneType' object is not iterable"))
        ELSE Return(Log(e, "cursor_close", <<>>, ""), Out("dataframe", e.rows))

(***************************************************************************)
(* execute_batch.  The template has positional placeholders, {0} for the   *)
(* color and {1} for the identifier; str.format puts str() of each value   *)
(* in its place.  A quoted placeholder makes the text a string literal; an *)
(* identifier that is not a number makes the statement fail on the server. *)
(***************************************************************************)
Template(o, q) == [op |-> o, quoted |-> q]

Format(sql, row) ==
    IF row.v[2].kind = "int" /\ sql.quoted
    THEN Stmt(sql.op, row.v[2].n, PyStr(PyText(row.v[1])))
    ELSE Fail

\* A page size that every call sets anew.
SetPageSizeAnew(s, page_size_arg) == [s EXCEPT !.page_size = page_size_arg]

\* self._page_size = self._page_size if self._page_size else page_size
SetPageSize(s, page_size_arg) ==
    [s EXCEPT !.page_size = IF s.page_size # 0 THEN s.page_size ELSE page_size_arg]

DefaultPageSize == 1000

\* The statements of the rows, last row first.
FormatAllReversed(sql, params) ==
    [k \in 1..Len(params) |-> Format(sql, params[Len(params) + 1 - k])]

\* The statements of the rows, in row order, sent as one script.
FormatAll(sql, params) == [k \in 1..Len(params) |-> Format(sql, params[k])]

execute_batch_curs(s0, sql, params0, page_size_arg) ==
    LET s == SetPageSize(Enter(s0, "execute_batch", TRUE), page_size_arg)
        e == CursExecute(
                 _print_debug_output(
                     _print_debug_output(s, Msg("Execute Batches: Inserting", Len(params0))),
                     Msg("Getting query", sql)),
                 FormatAll(sql, convert_nan_to_none(params0)))
    IN  IF Raised(e) THEN e
        ELSE Return(ConnCommit(_print_debug_output(e, Msg("Updated", Len(params0)))), OutNone)

(***************************************************************************)
(* insert_many.  psycopg2.extras.execute_values sends the rows in pages of *)
(* page_size rows (100 when the caller names none, as here), one execute   *)
(* per page, each an insert of the page's rows with the values bound by    *)
(* the driver: None as NULL, a string as a string literal, NaN as 'NaN'.   *)
(***************************************************************************)
ExecuteValuesPageSize == 100

Adapt(v) ==
    CASE v.kind = "none" -> PyNone
      [] v.kind = "str" -> v
      [] v = PyNaN -> PyStr("NaN")
      [] v = PyInf -> PyStr("Infinity")
      [] v = PyNegInf -> PyStr("-Infinity")
      [] OTHER -> PyStr(PyText(v))

\* The values put into the text by str.format and not bound by the driver.
InterpolatedInsert(sql, row) ==
    IF sql.op = "insert" /\ row.v[2].kind = "int"
    THEN Stmt("insert", row.v[2].n, PyStr(PyText(row.v[1])))
    ELSE Fail

BoundInsert(sql, row) ==
    IF sql.op = "insert" /\ row.v[2].kind = "int"
    THEN Stmt("insert", row.v[2].n, Adapt(row.v[1]))
    ELSE Fail

Min(a, b) == IF a < b THEN a ELSE b

RECURSIVE execute_values(_, _, _, _)
execute_values(s, sql, argslist, page_size_arg) ==
    IF argslist = <<>> \/ Raised(s) THEN s
    ELSE LET n == Min(page_size_arg, Len(argslist))
             page == [k \in 1..n |-> BoundInsert(sql, argslist[k])]
         IN  execute_values(CursExecute(s, page), sql,
                            SubSeq(argslist, n + 1, Len(argslist)), page_size_arg)

insert_many_curs(s0, sql, params0) ==
    LET e == execute_values(
                 Log(_print_debug_output(
                         _print_debug_output(Enter(s0, "insert_many", TRUE),
                                             Msg("Execute Many: Inserting", Len(params0))),
                         Msg("Getting query", sql)),
                     "execute_values", <<>>, ""),
                 sql, convert_nan_to_none(params0), ExecuteValuesPageSize)
    IN  IF Raised(e) THEN e
        ELSE Return(ConnCommit(_print_debug_output(e, Msg("Inserted", Len(params0)))), OutNone)

\* method_instance(sql, params, curs, conn): the bound method that asked for
\* the connection, entered again with the cursor and the connection; the
\* page size of execute_batch is then its default.
method_instance(method, s, sql, params) ==
    CASE method = "get_sql_dataframe" -> get_sql_dataframe_curs(s, sql, params)
      [] method = "get_sql_list_dicts" -> get_sql_list_dicts_curs(s, sql, params)
      [] method = "get_sql_single_item_list" -> get_sql_single_item_list_curs(s, sql, params)
      [] method = "get_single_result" -> get_single_result_curs(s, sql, params)
      [] method = "execute_simple" -> execute_simple_curs(s, sql, params)
      [] method = "execute_batch" -> execute_batch_curs(s, sql, params, DefaultPageSize)
      [] method = "insert_many" -> insert_many_curs(s, sql, params)

(***************************************************************************)
(* The context managers.  Leaving the cursor's block closes the cursor.    *)
(* Leaving the connection's block commits when the block returned and      *)
(* rolls back when it raised; psycopg2 does not close the connection.      *)
(***************************************************************************)
CursorExit(s) == [Log(s, "cursor_close", <<>>, "") EXCEPT !.curs = "closed"]

\* A connection block that commits however it is left.
ConnExitCommit(s) == ConnCommit(s)

ConnExit(s) == IF Raised(s) THEN ConnRollback(s) ELSE ConnCommit(s)

\* A scope whose body asks for a connection of its own.
SubMethodConnectingAgain(s, method, sql, params) ==
    LET c == Connect(s)
    IN  IF Raised(c) THEN c
        ELSE ConnExit(CursorExit(method_instance(method, ConnCursor(Connect(c)), sql, params)))

_database_connection_sub_method(s, method, sql, params) ==
    LET c == Connect(s)
    IN  IF Raised(c) THEN c
        ELSE ConnExit(CursorExit(method_instance(method, ConnCursor(c), sql, params)))

\* The code never calls close() on the connection.  When
\* _database_connection_sub_method returns, its frame is dropped and the
\* interpreter finalizes the connection object, which closes it; when it
\* raises, the traceback of the exception keeps the frame, and with it the
\* connection, as the caller receives the exception.
Finalize(s) == IF s.conn = "open" /\ ~Raised(s) THEN [s EXCEPT !.conn = "closed"] ELSE s

_get_connection(s, sql, params, method) ==
    Finalize(_database_connection_sub_method(s, method, sql, params))

\* The methods as the caller enters them, without a cursor.
get_sql_dataframe(s0, sql, params) ==
    _get_connection(Enter(s0, "get_sql_dataframe", FALSE), sql, params, "get_sql_dataframe")

get_sql_list_dicts(s0, sql, params) ==
    _get_connection(Enter(s0, "get_sql_list_dicts", FALSE), sql, params, "get_sql_list_dicts")

get_sql_single_item_list(s0, sql, params) ==
    _get_connection(Enter(s0, "get_sql_single_item_list", FALSE), sql, params,
                    "get_sql_single_item_list")

get_single_result(s0, sql, params) ==
    _get_connection(Enter(s0, "get_single_result", FALSE), sql, params, "get_single_result")

\* execute_simple, execute_batch and insert_many return None, whatever the
\* inner call returned.
ReturnNone(r) == IF Raised(r) THEN r ELSE Return(r, OutNone)

execute_simple(s0, sql, params) ==
    ReturnNone(_get_connection(Enter(s0, "execute_simple", FALSE), sql, params,
                               "execute_simple"))

execute_batch(s0, sql, params0, page_size_arg) ==
    ReturnNone(_get_connection(SetPageSize(Enter(s0, "execute_batch", FALSE), page_size_arg),
                               sql, convert_nan_to_none(params0), "execute_batch"))

insert_many(s0, sql, params0) ==
    ReturnNone(_get_connection(Enter(s0, "insert_many", FALSE), sql,
                               convert_nan_to_none(params0), "insert_many"))

\* The two deprecated methods: each prints its warning, debug flag or not,
\* and calls the method that replaced it; what that returns is dropped.
ExecuteManyWarning ==
    Msg("Warning: execute_many will be deprecated. Please use insert_many instead.", <<>>)

execute_many(s0, sql, params0) ==
    ReturnNone(insert_many(Stdout(Enter(s0, "execute_many", FALSE), ExecuteManyWarning),
                           sql, params0))

DeleteWarning == Msg("WARNING: Depreciated function. Use execute_simple.", <<>>)

delete(s0, sql, params) ==
    ReturnNone(execute_simple(Stdout(Enter(s0, "delete", FALSE), DeleteWarning), sql, params))

(***************************************************************************)
(* _get_table_column_dtypes: one metadata query, then each requested       *)
(* column in the order given; the first column that is absent or of an     *)
(* unknown type ends the call with its error.  1 is quoted, 0 unquoted.    *)
(***************************************************************************)
\* The quoted types without the date type.
QuotedTypesShort ==
    {"character varying", "nvarchar", "text", "character", "nchar", "bpchar",
     "timestamp without time zone", "timestamp with time zone", "time without time zone",
     "time with time zone"}

quoted_types ==
    {"character varying", "nvarchar", "text", "character", "nchar", "bpchar", "date",
     "timestamp without time zone", "timestamp with time zone", "time without time zone",
     "time with time zone"}

unquoted_types ==
    {"numeric", "bigint", "smallint", "integer", "bool", "float4", "float8", "float", "real",
     "double precision", "boolean"}

\* {x['column_name']: x['data_type'] for x in res}: a later entry of a name
\* replaces an earlier one.
Dtypes(res) ==
    [c \in {res[k].column_name : k \in 1..Len(res)} |->
        res[CHOOSE k \in 1..Len(res) :
                res[k].column_name = c /\ \A j \in (k + 1)..Len(res) : res[j].column_name # c
           ].data_type]

Put(output, col, quote_val) ==
    [c \in DOMAIN output \cup {col} |-> IF c = col THEN quote_val ELSE output[c]]

EmptyDict == [c \in {} |-> 0]

\* A loop that passes over a column the table does not have.
RECURSIVE ClassifySkipAbsent(_, _, _, _)
ClassifySkipAbsent(s, dtypes, columns, output) ==
    IF columns = <<>> THEN Return(s, Out("dict", output))
    ELSE LET col == Head(columns)
         IN  IF col \notin DOMAIN dtypes \/ dtypes[col] = ""
             THEN ClassifySkipAbsent(s, dtypes, Tail(columns), output)
             ELSE IF dtypes[col] \in quoted_types
             THEN ClassifySkipAbsent(s, dtypes, Tail(columns), Put(output, col, 1))
             ELSE IF dtypes[col] \in unquoted_types
             THEN ClassifySkipAbsent(s, dtypes, Tail(columns), Put(output, col, 0))
             ELSE Raise(s, Exc("MissingDTypeFromTypes", col))

\* A loop that takes a column of an unknown type for an unquoted one.
RECURSIVE ClassifyDefaultUnquoted(_, _, _, _)
ClassifyDefaultUnquoted(s, dtypes, columns, output) ==
    IF columns = <<>> THEN Return(s, Out("dict", output))
    ELSE LET col == Head(columns)
         IN  IF col \notin DOMAIN dtypes \/ dtypes[col] = ""
             THEN Raise(s, Exc("MissingDatabaseColumn", col))
             ELSE IF dtypes[col] \in quoted_types
             THEN ClassifyDefaultUnquoted(s, dtypes, Tail(columns), Put(output, col, 1))
             ELSE ClassifyDefaultUnquoted(s, dtypes, Tail(columns), Put(output, col, 0))

\* A loop that quotes every column it cannot classify and goes on.
RECURSIVE ClassifyLenient(_, _, _, _)
ClassifyLenient(s, dtypes, columns, output) ==
    IF columns = <<>> THEN Return(s, Out("dict", output))
    ELSE LET col == Head(columns)
         IN  IF col \in DOMAIN dtypes /\ dtypes[col] \in unquoted_types
             THEN ClassifyLenient(s, dtypes, Tail(columns), Put(output, col, 0))
             ELSE ClassifyLenient(s, dtypes, Tail(columns), Put(output, col, 1))

RECURSIVE ClassifyColumns(_, _, _, _)
ClassifyColumns(s, dtypes, columns, output) ==
    IF columns = <<>> THEN Return(s, Out("dict", output))
    ELSE LET col == Head(columns)
         IN  IF col \notin DOMAIN dtypes \/ dtypes[col] = ""
             THEN Raise(s, Exc("MissingDatabaseColumn", col))
             ELSE IF dtypes[col] \in quoted_types
             THEN ClassifyColumns(s, dtypes, Tail(columns), Put(output, col, 1))
             ELSE IF dtypes[col] \in unquoted_types
             THEN ClassifyColumns(s, dtypes, Tail(columns), Put(output, col, 0))
             ELSE Raise(s, Exc("MissingDTypeFromTypes", col))

_get_table_column_dtypes(s0, columns) ==
    LET res == get_sql_list_dicts(s0, <<SelectColumns>>, <<>>)
    IN  IF Raised(res) THEN res
        ELSE ClassifyColumns(res, Dtypes(res.out.v), columns, EmptyDict)

(***************************************************************************)
(* _set_column_value: the text "col=literal<sep> " of one value.           *)
(* strftime prints the year in four digits for the years 1000 to 9999.     *)
(***************************************************************************)
StrftimeDateTime(v) == IsoDate(v.d) \o "T" \o Clock(v.t) \o OffsetZ(v.tz)

StrftimeDate(v) == IsoDate(v.d)

\* The date test made before the datetime test: a datetime is a date too.
SetColumnValueDateFirst(col, val, sep, quote_flag_dict) ==
    IF IsNull(val) THEN col \o "=null" \o sep \o " "
    ELSE IF quote_flag_dict[col] # 0
    THEN LET text == IF val.kind \in {"date", "datetime"} THEN StrftimeDate(val)
                     ELSE PyText(val)
         IN  col \o "='" \o text \o "'" \o sep \o " "
    ELSE LET text == IF val.kind = "bool" THEN (IF val.b THEN "1" ELSE "0") ELSE PyText(val)
         IN  col \o "=" \o text \o sep \o " "

_set_column_value(col, val, sep, quote_flag_dict) ==
    IF IsNull(val) THEN col \o "=null" \o sep \o " "
    ELSE IF quote_flag_dict[col] # 0
    THEN LET text == IF val.kind = "datetime" THEN StrftimeDateTime(val)
                     ELSE IF val.kind = "date" THEN StrftimeDate(val)
                     ELSE PyText(val)
         IN  col \o "='" \o text \o "'" \o sep \o " "
    ELSE LET text == IF val.kind = "bool" THEN (IF val.b THEN "1" ELSE "0") ELSE PyText(val)
         IN  col \o "=" \o text \o sep \o " "

(***************************************************************************)
(* update_batch_from_df.  A dataframe is a sequence of rows, each with its *)
(* index label and a value for every column of the frame.                  *)
(***************************************************************************)
DfRow(label, v) == [label |-> label, v |-> v]

Project(row, cols) == [k \in 1..Len(cols) |-> row.v[cols[k]]]

\* df[cols].drop_duplicates(): the first row of each distinct content, with
\* the label it had.
DropDuplicates(df, cols) ==
    LET keep == {k \in 1..Len(df) :
                    \A j \in 1..(k - 1) : Project(df[j], cols) # Project(df[k], cols)}
        nth(n) == CHOOSE k \in keep : Cardinality({j \in keep : j < k}) = n - 1
    IN  [n \in 1..Cardinality(keep) |-> DfRow(df[nth(n)].label, Project(df[nth(n)], cols))]

\* df_.where(pd.notnull(df_), None)
WhereNotNull(df_) ==
    [n \in 1..Len(df_) |->
        DfRow(df_[n].label,
              [k \in 1..Len(df_[n].v) |-> IF IsNull(df_[n].v[k]) THEN PyNone ELSE df_[n].v[k]])]

RECURSIVE RStrip(_, _)
RStrip(x, chars) ==
    IF Len(x) > 0 /\ SubSeq(x, Len(x), Len(x)) \in chars
    THEN RStrip(SubSeq(x, 1, Len(x) - 1), chars)
    ELSE x

RECURSIVE Join(_, _)
Join(texts, sep) ==
    IF texts = <<>> THEN ""
    ELSE IF Len(texts) = 1 THEN texts[1]
    ELSE texts[1] \o sep \o Join(Tail(texts), sep)

\* The set or the where part of one row: the texts of its values, joined.
ColumnValues(cols, vals, sep, quote_col_dict) ==
    Join([k \in 1..Len(cols) |-> _set_column_value(cols[k], vals[k], sep, quote_col_dict)], "")

UpdateText(schema, table, us, ss) ==
    "update " \o schema \o "." \o table \o " set  " \o us \o " where " \o ss \o ";"

(***************************************************************************)
(* The server reads an update statement of the generated form: one         *)
(* color_name literal in the set part, one identifier in the where part.   *)
(* A comparison with null matches no row; any other text is an error.      *)
(***************************************************************************)
Literal(c) == IF c.kind = "none" THEN "null" ELSE "'" \o c.s \o "'"

ParseColors == Colors \cup {PyNone}

ParseUpdate(text) ==
    IF \E i \in Ids, c \in ParseColors :
           text = UpdateText("public", "color", "color_name=" \o Literal(c), "id=" \o IntText(i))
    THEN LET m == CHOOSE m \in Ids \X ParseColors :
                     text = UpdateText("public", "color", "color_name=" \o Literal(m[2]),
                                       "id=" \o IntText(m[1]))
         IN  Stmt("update", m[1], m[2])
    ELSE IF \E c \in ParseColors :
                text = UpdateText("public", "color", "color_name=" \o Literal(c), "id=null")
    THEN Stmt("update", 0, PyNone)
    ELSE Fail

\* The statements of the rows sent in the reverse of the row order.
UpdateStatementsReversed(df_, update_cols, static_cols, schema, table, quote_col_dict) ==
    LET loc(i) == df_[CHOOSE n \in 1..Len(df_) : df_[n].label = i].v
        text(vals) ==
            UpdateText(schema, table,
                       RStrip(ColumnValues(update_cols, SubSeq(vals, 1, Len(update_cols)), ",",
                                           quote_col_dict),
                              {",", " "}),
                       RStrip(ColumnValues(static_cols,
                                           SubSeq(vals, Len(update_cols) + 1, Len(vals)),
                                           " and", quote_col_dict),
                              {"a", "n", "d", " "}))
    IN  [n \in 1..Len(df_) |-> text(loc(Len(df_) - n))]

\* The loop over range(len(df_)) and the statements built after it:
\* df_.loc[i] is the row whose label is i, its values in the order of the
\* columns, the update columns first.
UpdateStatements(df_, update_cols, static_cols, schema, table, quote_col_dict) ==
    LET loc(i) == df_[CHOOSE n \in 1..Len(df_) : df_[n].label = i].v
        us(vals) ==
            RStrip(ColumnValues(update_cols, SubSeq(vals, 1, Len(update_cols)), ",",
                                quote_col_dict),
                   {",", " "})
        ss(vals) ==
            RStrip(ColumnValues(static_cols,
                                SubSeq(vals, Len(update_cols) + 1, Len(vals)), " and",
                                quote_col_dict),
                   {"a", "n", "d", " "})
        text(vals) == UpdateText(schema, table, us(vals), ss(vals))
    IN  [n \in 1..Len(df_) |-> text(loc(n - 1))]

\* self.execute_simple(sql) with the statements joined by ' '.
SendUpdates(s, sql) ==
    execute_simple([s EXCEPT !.sqltext = Join(sql, " ")],
                   [n \in 1..Len(sql) |-> ParseUpdate(sql[n])], <<>>)

\* What follows the catalog lookup, q being the frame the lookup ended in.
UpdateAfterLookup(q, df_, update_cols, static_cols, schema, table) ==
    IF Raised(q) THEN q
    ELSE IF \E i \in 0..(Len(df_) - 1) : \A n \in 1..Len(df_) : df_[n].label # i
    THEN Raise(q, Exc("KeyError", "label"))
    ELSE SendUpdates(Return(q, OutNone),
                     UpdateStatements(df_, update_cols, static_cols, schema, table, q.out.v))

\* df[update_cols + static_cols].drop_duplicates(), nulls made None.
SelectFrame(df, cols) == WhereNotNull(DropDuplicates(df, cols))

update_batch_from_df(s0, df, update_cols, static_cols, schema, table) ==
    IF \E k \in 1..Len(update_cols \o static_cols), n \in 1..Len(df) :
           (update_cols \o static_cols)[k] \notin DOMAIN df[n].v
    THEN Raise(Enter(s0, "update_batch_from_df", FALSE), Exc("KeyError", "not in index"))
    ELSE UpdateAfterLookup(
             _get_table_column_dtypes(Enter(s0, "update_batch_from_df", FALSE),
                                      update_cols \o static_cols),
             SelectFrame(df, update_cols \o static_cols),
             update_cols, static_cols, schema, table)

(***************************************************************************)
(* The record of a call: what was asked, on which table, and the frame it  *)
(* ended in.                                                               *)
(***************************************************************************)
Call(name, sql, params, s0, s) ==
    [op |-> name, sql |-> sql, params |-> params, db0 |-> s0.db,
     events |-> s.events, depth |-> s.depth, exc |-> s.exc, out |-> s.out, txn |-> s.txn,
     sqltext |-> s.sqltext]

NoCall ==
    [op |-> "none", sql |-> <<>>, params |-> <<>>, db0 |-> {}, events |-> <<>>,
     depth |-> <<>>, exc |-> NoExc, out |-> OutNone, txn |-> {}, sqltext |-> ""]

IsMutation(c) ==
    c.op \in {"execute_simple", "execute_batch", "insert_many", "update_batch_from_df",
              "execute_many", "delete"}

\* The state after a call.  The table is kept to MaxTable rows: a call that
\* would leave more is not taken.
Finish(name, sql, params, s0, s) ==
    \E end \in {s} :
        /\ Cardinality(end.db) <= MaxTable
        /\ db' = end.db
        /\ conn' = end.conn
        /\ curs' = end.curs
        /\ page_size' = end.page_size
        /\ last' = Call(name, sql, params, s0, end)
        /\ UNCHANGED <<catalog, ser, san, listening, pc, rand_port, probe, twin, settings>>

(***************************************************************************)
(* The calls a caller makes, one action per public method, each on a new   *)
(* frame over the current table.  The server may refuse the connection;    *)
(* a refused call never reads its arguments, so one value of them is       *)
(* enough for it.                                                          *)
(***************************************************************************)
ParamRows == {PyRow("tuple", <<c, PyInt(i)>>) : c \in Colors, i \in Ids}

ParamLists == SeqsUpTo(ParamRows, MaxRows)

\* More rows than one page of execute_values holds, the last of them
\* without a color.
BigParams ==
    [i \in 1..(ExecuteValuesPageSize + 1) |->
        PyRow("tuple", <<IF i > ExecuteValuesPageSize THEN PyNone ELSE PyStr("red"),
                         PyInt(IF i > ExecuteValuesPageSize THEN 1 ELSE i)>>)]

BatchTemplates == {Template("update", TRUE), Template("insert", TRUE)}

InsertTemplates == {Template("insert", TRUE)}

\* The rows of the dataframes: the columns color_name, id, payload and ghost
\* (the last two are no columns of the tests' table).  DataFrames holds the
\* frames of these rows with the default index 0, 1, ... and five frames
\* with repeated rows or another index.
FrameRows ==
    {[color_name |-> c, id |-> PyInt(i), payload |-> PyStr("{}"), ghost |-> PyStr("x")] :
        c \in Colors, i \in Ids}

\* A frame whose last row repeats its first, with another color for the same
\* identifier in between.
RepeatFrame ==
    LET row(c) == [color_name |-> PyStr(c), id |-> PyInt(1), payload |-> PyStr("{}"),
                   ghost |-> PyStr("x")]
    IN  <<DfRow(0, row("red")), DfRow(1, row("blue")), DfRow(2, row("red"))>>

\* A frame whose second row repeats its first: drop_duplicates keeps the
\* labels 0 and 2.
GapFrame ==
    LET row(c, i) == [color_name |-> PyStr(c), id |-> PyInt(i), payload |-> PyStr("{}"),
                      ghost |-> PyStr("x")]
    IN  <<DfRow(0, row("red", 1)), DfRow(1, row("red", 1)), DfRow(2, row("blue", 2))>>

\* A frame that is the second row of a larger one (df[df.id == 1] and the
\* like): its only label is 1.
FilteredFrame ==
    <<DfRow(1, [color_name |-> PyStr("red"), id |-> PyInt(1), payload |-> PyStr("{}"),
                ghost |-> PyStr("x")])>>

\* A frame whose rows were put in another order after it was built (sorted,
\* say): its index is 1, 0, and both rows have the same identifier.
SortedFrame ==
    LET row(c) == [color_name |-> PyStr(c), id |-> PyInt(1), payload |-> PyStr("{}"),
                   ghost |-> PyStr("x")]
    IN  <<DfRow(1, row("red")), DfRow(0, row("blue"))>>

\* A frame with the index 1, 0, 2 whose last row repeats its first:
\* drop_duplicates keeps the labels 1 and 0, in this order.
SortedRepeatFrame ==
    LET row(c) == [color_name |-> PyStr(c), id |-> PyInt(1), payload |-> PyStr("{}"),
                   ghost |-> PyStr("x")]
    IN  <<DfRow(1, row("red")), DfRow(0, row("blue")), DfRow(2, row("red"))>>

DataFrames ==
    {[n \in 1..Len(q) |-> DfRow(n - 1, q[n])] : q \in SeqsUpTo(FrameRows, MaxRows)}
    \cup {RepeatFrame, GapFrame, FilteredFrame, SortedFrame, SortedRepeatFrame}

\* The update columns: one of the table, one the table has only when it
\* was given the payload column, and one it never has (where the lookup
\* raises the frame's colors are never written, so one color is enough).
UpdateCols == {<<"color_name">>, <<"payload">>, <<"ghost">>}

GetSqlDataframe ==
    \E sql \in ReadScripts, ok \in BOOLEAN :
        LET s0 == Frame(db, page_size, ok)
        IN  /\ ok \/ sql = <<Select>>
            /\ UNCHANGED asked
            /\ Finish("get_sql_dataframe", sql, <<>>, s0,
                      get_sql_dataframe(s0, sql, <<>>))

GetSqlListDicts ==
    \E sql \in ReadScripts, ok \in BOOLEAN :
        LET s0 == Frame(db, page_size, ok)
        IN  /\ ok \/ sql = <<Select>>
            /\ UNCHANGED asked
            /\ Finish("get_sql_list_dicts", sql, <<>>, s0,
                      get_sql_list_dicts(s0, sql, <<>>))

GetSqlSingleItemList ==
    \E sql \in ReadScripts, ok \in BOOLEAN :
        LET s0 == Frame(db, page_size, ok)
        IN  /\ ok \/ sql = <<Select>>
            /\ UNCHANGED asked
            /\ Finish("get_sql_single_item_list", sql, <<>>, s0,
                      get_sql_single_item_list(s0, sql, <<>>))

GetSingleResult ==
    \E sql \in ReadScripts, ok \in BOOLEAN :
        LET s0 == Frame(db, page_size, ok)
        IN  /\ ok \/ sql = <<Select>>
            /\ UNCHANGED asked
            /\ Finish("get_single_result", sql, <<>>, s0,
                      get_single_result(s0, sql, <<>>))

ExecuteSimple ==
    \E sql \in MutationScripts, ok \in BOOLEAN :
        LET s0 == Frame(db, page_size, ok)
        IN  /\ ok \/ sql = <<Fail>>
            /\ UNCHANGED asked
            /\ Finish("execute_simple", sql, <<>>, s0, execute_simple(s0, sql, <<>>))

ExecuteBatch ==
    \E sql \in BatchTemplates, params \in ParamLists, ok \in BOOLEAN :
        LET s0 == Frame(db, page_size, ok)
        IN  /\ ok \/ (sql = Template("update", TRUE) /\ params = <<>>)
            /\ asked' = DefaultPageSize
            /\ Finish("execute_batch", sql, params, s0,
                      execute_batch(s0, sql, params, DefaultPageSize))

InsertMany ==
    \E sql \in InsertTemplates, params \in ParamLists \cup {BigParams}, ok \in BOOLEAN :
        LET s0 == Frame(db, page_size, ok)
        IN  /\ ok \/ (sql = Template("insert", TRUE) /\ params = <<>>)
            /\ UNCHANGED asked
            /\ Finish("insert_many", sql, params, s0, insert_many(s0, sql, params))

ExecuteMany ==
    \E sql \in InsertTemplates, params \in ParamLists, ok \in BOOLEAN :
        LET s0 == Frame(db, page_size, ok)
        IN  /\ ok \/ params = <<>>
            /\ UNCHANGED asked
            /\ Finish("execute_many", sql, params, s0, execute_many(s0, sql, params))

Delete ==
    \E sql \in MutationScripts, ok \in BOOLEAN :
        LET s0 == Frame(db, page_size, ok)
        IN  /\ ok \/ sql = <<Fail>>
            /\ UNCHANGED asked
            /\ Finish("delete", sql, <<>>, s0, delete(s0, sql, <<>>))

(***************************************************************************)
(* The columns of the table of the tests, as information_schema.columns    *)
(* reports them for                                                        *)
(*   create table color (id serial, color_name VARCHAR NOT NULL,           *)
(*     another_value VARCHAR, an_int integer, a_date date,                 *)
(*     a_timestamp timestamp, a_number numeric(6,2), a_big_int bigint,     *)
(*     a_small_int smallint)                                               *)
(* Every type of it is in one of the two lists of the lookup.              *)
(***************************************************************************)
Column(name, type) == [column_name |-> name, data_type |-> type]

TestCatalog ==
    <<Column("id", "integer"), Column("color_name", "character varying"),
      Column("another_value", "character varying"), Column("an_int", "integer"),
      Column("a_date", "date"), Column("a_timestamp", "timestamp without time zone"),
      Column("a_number", "numeric"), Column("a_big_int", "bigint"),
      Column("a_small_int", "smallint")>>

\* The same table after `alter table color add column payload json`: a
\* column whose type is in neither list.
PayloadCatalog == Append(TestCatalog, Column("payload", "json"))

UpdateBatchFromDf ==
    \E df \in DataFrames, update_cols \in UpdateCols, ok \in BOOLEAN :
        LET s0 == Frame(db, page_size, ok)
        IN  /\ ok \/ (df = <<>> /\ update_cols = <<"color_name">>)
            /\ update_cols = <<"color_name">>
               \/ \A n \in 1..Len(df) : df[n].v.color_name = PyStr("red")
            /\ UNCHANGED asked
            /\ Finish("update_batch_from_df", <<>>, <<df, update_cols, <<"id">>>>, s0,
                      update_batch_from_df(s0, df, update_cols, <<"id">>, "public", "color"))

Init ==
    /\ db = {}
    /\ conn = "none"
    /\ curs = "none"
    /\ page_size = 0
    /\ last = NoCall
    /\ catalog = TestCatalog
    /\ ser = <<>>
    /\ asked = 0
    /\ san = <<>>
    /\ listening = {}
    /\ pc = <<>>
    /\ rand_port = <<>>
    /\ probe = <<>>
    /\ twin = <<>>
    /\ settings = NoSettings

Next ==
    \/ GetSqlDataframe
    \/ GetSqlListDicts
    \/ GetSqlSingleItemList
    \/ GetSingleResult
    \/ ExecuteSimple
    \/ ExecuteBatch
    \/ InsertMany
    \/ ExecuteMany
    \/ Delete
    \/ UpdateBatchFromDf

Spec == Init /\ [][Next]_vars

(***************************************************************************)
(* update_batch_from_df on its own, over every table of up to MaxTable     *)
(* rows, with and without the payload column.                              *)
(***************************************************************************)
Tables ==
    {{Row(q[k][1], q[k][2], k) : k \in 1..Len(q)} : q \in SeqsUpTo(Ids \X Colors, MaxTable)}

InitUpdate ==
    /\ db \in Tables
    /\ conn = "none"
    /\ curs = "none"
    /\ page_size = 0
    /\ last = NoCall
    /\ catalog \in {TestCatalog, PayloadCatalog}
    /\ ser = <<>>
    /\ asked = 0
    /\ san = <<>>
    /\ listening = {}
    /\ pc = <<>>
    /\ rand_port = <<>>
    /\ probe = <<>>
    /\ twin = <<>>
    /\ settings = NoSettings

NextUpdate == UpdateBatchFromDf

SpecUpdate == InitUpdate /\ [][NextUpdate]_vars

(***************************************************************************)
(* The catalog lookup on its own, as the tests call it, over tables whose  *)
(* two columns are each absent or of any type the server may report.       *)
(***************************************************************************)
MaxColumns == 2

CatalogNames == <<"color_name", "an_int">>

Absent == "-"

\* The data_type values of the two lists of the lookup, and one (json) that
\* is in neither.
DeclaredTypes ==
    {"character varying", "nvarchar", "text", "character", "nchar", "bpchar", "date",
     "timestamp without time zone", "timestamp with time zone", "time without time zone",
     "time with time zone", "numeric", "bigint", "smallint", "integer", "bool", "float4",
     "float8", "float", "real", "double precision", "boolean", "json", Absent}

CatalogOf(f) ==
    LET listed == {k \in 1..Len(CatalogNames) : f[k] # Absent}
        nth(n) == CHOOSE k \in listed : Cardinality({j \in listed : j < k}) = n - 1
    IN  [n \in 1..Cardinality(listed) |-> Column(CatalogNames[nth(n)], f[nth(n)])]

Catalogs == {CatalogOf(f) : f \in [1..Len(CatalogNames) -> DeclaredTypes]}

ColumnLists == SeqsUpTo({CatalogNames[k] : k \in 1..Len(CatalogNames)}, MaxColumns)

GetTableColumnDtypes ==
    \E columns \in ColumnLists, ok \in BOOLEAN :
        LET s0 == Frame(db, page_size, ok)
        IN  /\ ok \/ columns = <<>>
            /\ UNCHANGED asked
            /\ Finish("_get_table_column_dtypes", <<SelectColumns>>, columns, s0,
                      _get_table_column_dtypes(s0, columns))

InitCatalog ==
    /\ db = {}
    /\ conn = "none"
    /\ curs = "none"
    /\ page_size = 0
    /\ last = NoCall
    /\ catalog \in Catalogs
    /\ ser = <<>>
    /\ asked = 0
    /\ san = <<>>
    /\ listening = {}
    /\ pc = <<>>
    /\ rand_port = <<>>
    /\ probe = <<>>
    /\ twin = <<>>
    /\ settings = NoSettings

NextCatalog == GetTableColumnDtypes

SpecCatalog == InitCatalog /\ [][NextCatalog]_vars

(***************************************************************************)
(* The serializer on its own: one call of _set_column_value for a column,  *)
(* a value, a separator and a quoting flag.                                *)
(***************************************************************************)
SerColumns == {"c_value", "c_other"}

SerSeps == {",", " and"}

SerDates == {<<2021, 1, 1>>, <<1999, 12, 31>>, <<1000, 10, 5>>}

SerTimes == {<<12, 0, 0>>, <<0, 0, 0>>, <<23, 59, 9>>}

SerZones == {Naive, <<"+", 0, 0>>, <<"+", 5, 30>>, <<"-", 8, 0>>}

SerValues ==
    {PyNone, PyNaN, PyInf, PyFloat("1.5"), PyBool(TRUE), PyBool(FALSE), PyInt(0), PyInt(1),
     PyInt(-12), PyStr("abc"), PyStr(""), PyStr("O'Neil")}
    \cup {PyDate(d) : d \in SerDates}
    \cup {PyDateTime(d, t, z) : d \in SerDates, t \in SerTimes, z \in SerZones}

SerCall(col, val, sep, quote) ==
    [col |-> col, val |-> val, sep |-> sep, quote |-> quote, done |-> FALSE, out |-> ""]

SetColumnValue ==
    /\ ~ser.done
    /\ ser' = [ser EXCEPT
                  !.done = TRUE,
                  !.out = _set_column_value(
                              ser.col, ser.val, ser.sep,
                              [c \in SerColumns |-> IF c = ser.col THEN ser.quote ELSE 1 - ser.quote])]
    /\ UNCHANGED <<db, conn, curs, page_size, last, catalog>>
    /\ UNCHANGED <<asked, san, listening, pc, rand_port, probe, twin, settings>>

InitSerialize ==
    /\ db = {}
    /\ conn = "none"
    /\ curs = "none"
    /\ page_size = 0
    /\ last = NoCall
    /\ catalog = TestCatalog
    /\ ser \in {SerCall(col, val, sep, quote) :
                   col \in SerColumns, val \in SerValues, sep \in SerSeps, quote \in {0, 1}}
    /\ asked = 0
    /\ san = <<>>
    /\ listening = {}
    /\ pc = <<>>
    /\ rand_port = <<>>
    /\ probe = <<>>
    /\ twin = <<>>
    /\ settings = NoSettings

NextSerialize == SetColumnValue

SpecSerialize == InitSerialize /\ [][NextSerialize]_vars

(***************************************************************************)
(* execute_batch with the page sizes a caller may name: none yet (0, which *)
(* Python takes for false, as it does None), one row, as many rows as the  *)
(* longest list, and the default.                                          *)
(***************************************************************************)
PageSizes == {0, 1, MaxRows, DefaultPageSize}

ExecuteBatchPageSize ==
    \E sql \in BatchTemplates, params \in ParamLists, p \in PageSizes, ok \in BOOLEAN :
        LET s0 == Frame(db, page_size, ok)
        IN  /\ ok \/ (sql = Template("update", TRUE) /\ params = <<>>)
            /\ asked' = p
            /\ Finish("execute_batch", sql, params, s0, execute_batch(s0, sql, params, p))

NextBatch == ExecuteBatchPageSize

SpecBatch == Init /\ [][NextBatch]_vars

(***************************************************************************)
(* insert_many over rows that are lists or tuples and hold a string, None  *)
(* or NaN in the color column.                                             *)
(***************************************************************************)
RichColors == {PyStr("red"), PyNone, PyNaN}

RichRows == {PyRow(k, <<c, PyInt(i)>>) : k \in {"list", "tuple"}, c \in RichColors, i \in Ids}

RichLists == SeqsUpTo(RichRows, MaxRows)

InsertManyRows ==
    \E sql \in InsertTemplates, params \in RichLists \cup {BigParams}, ok \in BOOLEAN :
        LET s0 == Frame(db, page_size, ok)
        IN  /\ ok \/ params = <<>>
            /\ UNCHANGED asked
            /\ Finish("insert_many", sql, params, s0, insert_many(s0, sql, params))

\* Dataframes whose columns are the table's, color_name and id, with the
\* default index.
SaveRows == {[color_name |-> c, id |-> PyInt(i)] : c \in RichColors, i \in Ids}

SaveFrames == {[n \in 1..Len(q) |-> DfRow(n - 1, q[n])] : q \in SeqsUpTo(SaveRows, MaxRows)}

\* sql = 'insert into {schema}{table_name} ({columns_str}) values %s;' and
\* params = [list(x) for x in list(df.values)]: one list per row of the frame.
build_sql_from_dataframe(df) ==
    [sql |-> Template("insert", TRUE),
     params |-> [n \in 1..Len(df) |-> PyRow("list", <<df[n].v.color_name, df[n].v.id>>)]]

save_dataframe(s0, df) ==
    insert_many(s0, build_sql_from_dataframe(df).sql, build_sql_from_dataframe(df).params)

SaveDataframe ==
    \E df \in SaveFrames, ok \in BOOLEAN :
        LET s0 == Frame(db, page_size, ok)
        IN  /\ ok \/ df = <<>>
            /\ UNCHANGED asked
            /\ Finish("save_dataframe", build_sql_from_dataframe(df).sql,
                      build_sql_from_dataframe(df).params, s0, save_dataframe(s0, df))

ExecuteManyRows ==
    \E sql \in InsertTemplates, params \in RichLists, ok \in BOOLEAN :
        LET s0 == Frame(db, page_size, ok)
        IN  /\ ok \/ params = <<>>
            /\ UNCHANGED asked
            /\ Finish("execute_many", sql, params, s0, execute_many(s0, sql, params))

NextInsert ==
    \/ InsertManyRows
    \/ ExecuteManyRows
    \/ SaveDataframe

SpecInsert == Init /\ [][NextInsert]_vars

(***************************************************************************)
(* The sanitizer on its own: one call of convert_nan_to_none on a list of  *)
(* rows, each a list or a tuple of two values.                             *)
(***************************************************************************)
SanValues == {PyNaN, PyInf, PyNegInf, PyStr("red"), PyInt(1)}

SanRows == {PyRow(k, <<v, w>>) : k \in {"list", "tuple"}, v \in SanValues, w \in SanValues}

SanCall(params) == [params |-> params, done |-> FALSE, out |-> <<>>]

ConvertNanToNone ==
    /\ ~san.done
    /\ san' = [san EXCEPT !.done = TRUE, !.out = convert_nan_to_none(san.params)]
    /\ UNCHANGED <<db, conn, curs, page_size, last, catalog, ser>>
    /\ UNCHANGED <<asked, listening, pc, rand_port, probe, twin, settings>>

InitSanitize ==
    /\ db = {}
    /\ conn = "none"
    /\ curs = "none"
    /\ page_size = 0
    /\ last = NoCall
    /\ catalog = TestCatalog
    /\ ser = <<>>
    /\ asked = 0
    /\ san \in {SanCall(params) : params \in SeqsUpTo(SanRows, MaxRows)}
    /\ listening = {}
    /\ pc = <<>>
    /\ rand_port = <<>>
    /\ probe = <<>>
    /\ twin = <<>>
    /\ settings = NoSettings

NextSanitize == ConvertNanToNone

SpecSanitize == InitSanitize /\ [][NextSanitize]_vars

(***************************************************************************)
(* The choice of a local bind port by the 'random' policy                  *)
(* (_get_random_port, and the same loop in                                 *)
(* ConfigurationService.ssh_local_bind_port), by managers that run side by *)
(* side.  Each manager is at one place of the loop: about to draw a port,  *)
(* about to probe the port drawn, about to return it, or done, with the    *)
(* port returned.  is_port_in_use reports a port busy when a connection    *)
(* to it is accepted, that is when some process listens on it.  A manager  *)
(* that has its port goes on to listen on it (the tunnel it wanted the     *)
(* port for), which fails when the port is taken by then.  Other processes *)
(* start and stop listening on ports at any time.                          *)
(***************************************************************************)
MaxManagers == 2
MaxPorts == 3

FirstPort == 5000

Managers == 1..MaxManagers

Ports == FirstPort..(FirstPort + MaxPorts - 1)

NoProbe == [port |-> 0, in_use |-> FALSE]

\* s.connect_ex(('localhost', port)) == 0
is_port_in_use(port) == port \in listening

\* A loop that returns the port whatever the probe said.
AfterProbeReturn(in_use) == "return"

\* A loop that draws again whatever the probe said.
AfterProbeDraw(in_use) == "draw"

\* if not self.is_port_in_use(rand_port): return rand_port; else draw again.
AfterProbe(in_use) == IF in_use THEN "draw" ELSE "return"

PortsUnchanged ==
    /\ UNCHANGED <<db, conn, curs, page_size, last, catalog, ser>>
    /\ UNCHANGED <<asked, san, twin, settings>>

\* rand_port = random.randint(5000, 50000)
\* The draw that gives the port p.
DrawPort(m, p) ==
    /\ pc[m] = "draw"
    /\ rand_port' = [rand_port EXCEPT ![m] = p]
    /\ pc' = [pc EXCEPT ![m] = "probe"]
    /\ UNCHANGED <<listening, probe>>
    /\ PortsUnchanged

Draw(m) == \E p \in Ports : DrawPort(m, p)

Probe(m) ==
    /\ pc[m] = "probe"
    /\ probe' = [probe EXCEPT ![m] = [port |-> rand_port[m],
                                      in_use |-> is_port_in_use(rand_port[m])]]
    /\ pc' = [pc EXCEPT ![m] = AfterProbe(is_port_in_use(rand_port[m]))]
    /\ UNCHANGED <<listening, rand_port>>
    /\ PortsUnchanged

ReturnPort(m) ==
    /\ pc[m] = "return"
    /\ pc' = [pc EXCEPT ![m] = "done"]
    /\ UNCHANGED <<listening, rand_port, probe>>
    /\ PortsUnchanged

Bind(m) ==
    /\ pc[m] = "done"
    /\ rand_port[m] \notin listening
    /\ listening' = listening \cup {rand_port[m]}
    /\ pc' = [pc EXCEPT ![m] = "bound"]
    /\ UNCHANGED <<rand_port, probe>>
    /\ PortsUnchanged

BindFails(m) ==
    /\ pc[m] = "done"
    /\ rand_port[m] \in listening
    /\ pc' = [pc EXCEPT ![m] = "failed"]
    /\ UNCHANGED <<listening, rand_port, probe>>
    /\ PortsUnchanged

\* The manager gives its port up and may ask for one again.
Release(m) ==
    /\ pc[m] \in {"bound", "failed"}
    /\ listening' = IF pc[m] = "bound" THEN listening \ {rand_port[m]} ELSE listening
    /\ pc' = [pc EXCEPT ![m] = "draw"]
    /\ UNCHANGED <<rand_port, probe>>
    /\ PortsUnchanged

BoundPorts == {rand_port[m] : m \in {k \in Managers : pc[k] = "bound"}}

OtherListens ==
    /\ \E p \in Ports \ listening : listening' = listening \cup {p}
    /\ UNCHANGED <<pc, rand_port, probe>>
    /\ PortsUnchanged

OtherCloses ==
    /\ \E p \in listening \ BoundPorts : listening' = listening \ {p}
    /\ UNCHANGED <<pc, rand_port, probe>>
    /\ PortsUnchanged

InitPorts ==
    /\ db = {}
    /\ conn = "none"
    /\ curs = "none"
    /\ page_size = 0
    /\ last = NoCall
    /\ catalog = TestCatalog
    /\ ser = <<>>
    /\ asked = 0
    /\ san = <<>>
    /\ listening = {}
    /\ pc = [m \in Managers |-> "draw"]
    /\ rand_port = [m \in Managers |-> 0]
    /\ probe = [m \in Managers |-> NoProbe]
    /\ twin = <<>>
    /\ settings = NoSettings

NextPorts ==
    \/ \E m \in Managers : Draw(m)
    \/ \E m \in Managers : Probe(m)
    \/ \E m \in Managers : ReturnPort(m)
    \/ \E m \in Managers : Bind(m)
    \/ \E m \in Managers : BindFails(m)
    \/ \E m \in Managers : Release(m)
    \/ OtherListens
    \/ OtherCloses

SpecPorts == InitPorts /\ [][NextPorts]_vars

(***************************************************************************)
(* The retry loop on its own, under fair scheduling.  The loop is          *)
(* sequential code that goes on until it returns, so each of its steps is  *)
(* taken when it stays possible (weak fairness of the probe and of the     *)
(* return); random.randint gives every port of the range with a positive   *)
(* probability at every draw, so a loop that draws again and again draws   *)
(* every port again and again (strong fairness of the draw of each port).  *)
(* Other processes start and stop listening as they like, from any         *)
(* beginning.                                                              *)
(***************************************************************************)
InitPortsFair ==
    /\ db = {}
    /\ conn = "none"
    /\ curs = "none"
    /\ page_size = 0
    /\ last = NoCall
    /\ catalog = TestCatalog
    /\ ser = <<>>
    /\ asked = 0
    /\ san = <<>>
    /\ listening \in SUBSET Ports
    /\ pc = [m \in Managers |-> "draw"]
    /\ rand_port = [m \in Managers |-> 0]
    /\ probe = [m \in Managers |-> NoProbe]
    /\ twin = <<>>
    /\ settings = NoSettings

NextPortsFair ==
    \/ \E m \in Managers : Draw(m)
    \/ \E m \in Managers : Probe(m)
    \/ \E m \in Managers : ReturnPort(m)
    \/ OtherListens
    \/ OtherCloses

FairLoop ==
    \A m \in Managers :
        /\ WF_vars(Probe(m))
        /\ WF_vars(ReturnPort(m))
        /\ \A p \in Ports : SF_vars(DrawPort(m, p))

SpecPortsFair == InitPortsFair /\ [][NextPortsFair]_vars /\ FairLoop

(***************************************************************************)
(* Two instances side by side, one made with the debug flag and one        *)
(* without, given the same calls on the same table: each action makes the  *)
(* call on both and keeps what the instance with the flag did in twin,     *)
(* next to the record of the other in last.                                *)
(***************************************************************************)
Flagged(s0, flag) == IF flag THEN WithDebug(s0) ELSE s0

\* run[flag] is the frame the call ended in on the instance with that flag.
Twin(name, sql, params, s0, run) ==
    \E quiet \in {run[FALSE]}, loud \in {run[TRUE]} :
        /\ Cardinality(quiet.db) <= MaxTable
        /\ db' = quiet.db
        /\ conn' = quiet.conn
        /\ curs' = quiet.curs
        /\ page_size' = quiet.page_size
        /\ last' = Call(name, sql, params, s0, quiet)
        /\ twin' = [events |-> loud.events, exc |-> loud.exc, out |-> loud.out,
                    db |-> loud.db, conn |-> loud.conn, curs |-> loud.curs,
                    page_size |-> loud.page_size, sink |-> loud.sink, silent |-> quiet.sink]
        /\ UNCHANGED <<catalog, ser, asked, san, listening, pc, rand_port, probe, settings>>

DebugGetSqlDataframe ==
    \E sql \in ReadScripts, ok \in BOOLEAN :
        LET s0 == Frame(db, page_size, ok)
        IN  /\ ok \/ sql = <<Select>>
            /\ Twin("get_sql_dataframe", sql, <<>>, s0,
                    [flag \in BOOLEAN |-> get_sql_dataframe(Flagged(s0, flag), sql, <<>>)])

DebugGetSqlListDicts ==
    \E sql \in ReadScripts, ok \in BOOLEAN :
        LET s0 == Frame(db, page_size, ok)
        IN  /\ ok \/ sql = <<Select>>
            /\ Twin("get_sql_list_dicts", sql, <<>>, s0,
                    [flag \in BOOLEAN |-> get_sql_list_dicts(Flagged(s0, flag), sql, <<>>)])

DebugGetSqlSingleItemList ==
    \E sql \in ReadScripts, ok \in BOOLEAN :
        LET s0 == Frame(db, page_size, ok)
        IN  /\ ok \/ sql = <<Select>>
            /\ Twin("get_sql_single_item_list", sql, <<>>, s0,
                    [flag \in BOOLEAN |->
                        get_sql_single_item_list(Flagged(s0, flag), sql, <<>>)])

DebugGetSingleResult ==
    \E sql \in ReadScripts, ok \in BOOLEAN :
        LET s0 == Frame(db, page_size, ok)
        IN  /\ ok \/ sql = <<Select>>
            /\ Twin("get_single_result", sql, <<>>, s0,
                    [flag \in BOOLEAN |-> get_single_result(Flagged(s0, flag), sql, <<>>)])

DebugExecuteSimple ==
    \E sql \in MutationScripts, ok \in BOOLEAN :
        LET s0 == Frame(db, page_size, ok)
        IN  /\ ok \/ sql = <<Fail>>
            /\ Twin("execute_simple", sql, <<>>, s0,
                    [flag \in BOOLEAN |-> execute_simple(Flagged(s0, flag), sql, <<>>)])

DebugExecuteBatch ==
    \E sql \in BatchTemplates, params \in ParamLists, ok \in BOOLEAN :
        LET s0 == Frame(db, page_size, ok)
        IN  /\ ok \/ (sql = Template("update", TRUE) /\ params = <<>>)
            /\ Twin("execute_batch", sql, params, s0,
                    [flag \in BOOLEAN |->
                        execute_batch(Flagged(s0, flag), sql, params, DefaultPageSize)])

DebugInsertMany ==
    \E sql \in InsertTemplates, params \in ParamLists, ok \in BOOLEAN :
        LET s0 == Frame(db, page_size, ok)
        IN  /\ ok \/ params = <<>>
            /\ Twin("insert_many", sql, params, s0,
                    [flag \in BOOLEAN |-> insert_many(Flagged(s0, flag), sql, params)])

DebugExecuteMany ==
    \E sql \in InsertTemplates, params \in ParamLists, ok \in BOOLEAN :
        LET s0 == Frame(db, page_size, ok)
        IN  /\ ok \/ params = <<>>
            /\ Twin("execute_many", sql, params, s0,
                    [flag \in BOOLEAN |-> execute_many(Flagged(s0, flag), sql, params)])

DebugDelete ==
    \E sql \in MutationScripts, ok \in BOOLEAN :
        LET s0 == Frame(db, page_size, ok)
        IN  /\ ok \/ sql = <<Fail>>
            /\ Twin("delete", sql, <<>>, s0,
                    [flag \in BOOLEAN |-> delete(Flagged(s0, flag), sql, <<>>)])

DebugUpdateBatchFromDf ==
    \E df \in DataFrames, update_cols \in UpdateCols, ok \in BOOLEAN :
        LET s0 == Frame(db, page_size, ok)
        IN  /\ ok \/ (df = <<>> /\ update_cols = <<"color_name">>)
            /\ update_cols = <<"color_name">>
               \/ \A n \in 1..Len(df) : df[n].v.color_name = PyStr("red")
            /\ Twin("update_batch_from_df", <<>>, <<df, update_cols, <<"id">>>>, s0,
                    [flag \in BOOLEAN |->
                        update_batch_from_df(Flagged(s0, flag), df, update_cols, <<"id">>,
                                             "public", "color")])

NextDebug ==
    \/ DebugGetSqlDataframe
    \/ DebugGetSqlListDicts
    \/ DebugGetSqlSingleItemList
    \/ DebugGetSingleResult
    \/ DebugExecuteSimple
    \/ DebugExecuteBatch
    \/ DebugInsertMany
    \/ DebugExecuteMany
    \/ DebugDelete
    \/ DebugUpdateBatchFromDf

SpecDebug == Init /\ [][NextDebug]_vars

(***************************************************************************)
(* ConfigurationService (src/cbcdb/configuration_service.py): the values   *)
(* given to the constructor, the process environment the properties read,  *)
(* and the record of the last property read or helper call.  os.environ    *)
(* is a function from the variable names to a string, or None for a        *)
(* variable that is not set.                                               *)
(***************************************************************************)
\* bool(v) of the values the configuration sees.
Truthy(v) ==
    CASE v.kind = "none" -> FALSE
      [] v.kind = "bool" -> v.b
      [] v.kind = "int" -> v.n # 0
      [] v.kind = "float" -> v.s \notin {"0.0", "-0.0"}
      [] v.kind = "str" -> v.s # ""
      [] OTHER -> TRUE

\* The lower-case form of one character: the letters A to Z and the
\* capital letters of Latin-1 (U+00C0 to U+00DE, the sign U+00D7 left out);
\* no other character a string of the model can hold (U+0001 to U+00FF)
\* has one, and none has a form of two characters.
LowerChar(c) ==
    CASE c = "A" -> "a" [] c = "B" -> "b" [] c = "C" -> "c" [] c = "D" -> "d"
      [] c = "E" -> "e" [] c = "F" -> "f" [] c = "G" -> "g" [] c = "H" -> "h"
      [] c = "I" -> "i" [] c = "J" -> "j" [] c = "K" -> "k" [] c = "L" -> "l"
      [] c = "M" -> "m" [] c = "N" -> "n" [] c = "O" -> "o" [] c = "P" -> "p"
      [] c = "Q" -> "q" [] c = "R" -> "r" [] c = "S" -> "s" [] c = "T" -> "t"
      [] c = "U" -> "u" [] c = "V" -> "v" [] c = "W" -> "w" [] c = "X" -> "x"
      [] c = "Y" -> "y" [] c = "Z" -> "z" [] c = "À" -> "à" [] c = "Á" -> "á"
      [] c = "Â" -> "â" [] c = "Ã" -> "ã" [] c = "Ä" -> "ä" [] c = "Å" -> "å"
      [] c = "Æ" -> "æ" [] c = "Ç" -> "ç" [] c = "È" -> "è" [] c = "É" -> "é"
      [] c = "Ê" -> "ê" [] c = "Ë" -> "ë" [] c = "Ì" -> "ì" [] c = "Í" -> "í"
      [] c = "Î" -> "î" [] c = "Ï" -> "ï" [] c = "Ð" -> "ð" [] c = "Ñ" -> "ñ"
      [] c = "Ò" -> "ò" [] c = "Ó" -> "ó" [] c = "Ô" -> "ô" [] c = "Õ" -> "õ"
      [] c = "Ö" -> "ö" [] c = "Ø" -> "ø" [] c = "Ù" -> "ù" [] c = "Ú" -> "ú"
      [] c = "Û" -> "û" [] c = "Ü" -> "ü" [] c = "Ý" -> "ý" [] c = "Þ" -> "þ"
      [] OTHER -> c

\* str.lower()
RECURSIVE LowerText(_)
LowerText(text) ==
    IF text = "" THEN ""
    ELSE LowerChar(SubSeq(text, 1, 1)) \o LowerText(SubSeq(text, 2, Len(text)))

\* The value of a decimal digit, -1 for any other character; 0 to 9 are the
\* only decimal digits up to U+00FF.
DigitValue(c) ==
    CASE c = "0" -> 0 [] c = "1" -> 1 [] c = "2" -> 2 [] c = "3" -> 3 [] c = "4" -> 4
      [] c = "5" -> 5 [] c = "6" -> 6 [] c = "7" -> 7 [] c = "8" -> 8 [] c = "9" -> 9
      [] OTHER -> -1

\* The characters int() drops around the number: tab, line feed, vertical
\* tab, form feed, carriage return, space, next line (U+0085) and no-break
\* space (U+00A0).  The separators U+001C to U+001F are not among them.
WhiteSpace == {" ", "\t", "\n", "", "\f", "\r", "", " "}

RECURSIVE LStrip(_, _)
LStrip(x, chars) ==
    IF Len(x) > 0 /\ SubSeq(x, 1, 1) \in chars
    THEN LStrip(SubSeq(x, 2, Len(x)), chars)
    ELSE x

\* The number a text of decimal digits writes, n being the number read so
\* far; one underscore may stand between two digits.  -1 for any other text.
RECURSIVE DecimalOf(_, _, _)
DecimalOf(text, n, after_digit) ==
    IF text = "" THEN IF after_digit THEN n ELSE -1
    ELSE IF SubSeq(text, 1, 1) = "_"
    THEN IF after_digit THEN DecimalOf(SubSeq(text, 2, Len(text)), n, FALSE) ELSE -1
    ELSE IF DigitValue(SubSeq(text, 1, 1)) < 0 THEN -1
    ELSE DecimalOf(SubSeq(text, 2, Len(text)), 10 * n + DigitValue(SubSeq(text, 1, 1)), TRUE)

\* repr() of one character between the quote q: a backslash before the
\* backslash and before the quote itself, \t, \n and \r for the three, \xNN
\* for every other character that is not printable (the controls, U+007F to
\* U+00A0 and the soft hyphen U+00AD).
ReprChar(c, q) ==
    CASE c = q -> "\\" \o q
      [] c = "" -> "\\x01" [] c = "" -> "\\x02" [] c = "" -> "\\x03" [] c = "" -> "\\x04"
      [] c = "" -> "\\x05" [] c = "" -> "\\x06" [] c = "" -> "\\x07" [] c = "" -> "\\x08"
      [] c = "\t" -> "\\t" [] c = "\n" -> "\\n" [] c = "" -> "\\x0b" [] c = "\f" -> "\\x0c"
      [] c = "\r" -> "\\r" [] c = "" -> "\\x0e" [] c = "" -> "\\x0f" [] c = "" -> "\\x10"
      [] c = "" -> "\\x11" [] c = "" -> "\\x12" [] c = "" -> "\\x13" [] c = "" -> "\\x14"
      [] c = "" -> "\\x15" [] c = "" -> "\\x16" [] c = "" -> "\\x17" [] c = "" -> "\\x18"
      [] c = "" -> "\\x19" [] c = "" -> "\\x1a" [] c = "" -> "\\x1b" [] c = "" -> "\\x1c"
      [] c = "" -> "\\x1d" [] c = "" -> "\\x1e" [] c = "" -> "\\x1f" [] c = "\\" -> "\\\\"
      [] c = "" -> "\\x7f" [] c = "" -> "\\x80" [] c = "" -> "\\x81" [] c = "" -> "\\x82"
      [] c = "" -> "\\x83" [] c = "" -> "\\x84" [] c = "" -> "\\x85" [] c = "" -> "\\x86"
      [] c = "" -> "\\x87" [] c = "" -> "\\x88" [] c = "" -> "\\x89" [] c = "" -> "\\x8a"
      [] c = "" -> "\\x8b" [] c = "" -> "\\x8c" [] c = "" -> "\\x8d" [] c = "" -> "\\x8e"
      [] c = "" -> "\\x8f" [] c = "" -> "\\x90" [] c = "" -> "\\x91" [] c = "" -> "\\x92"
      [] c = "" -> "\\x93" [] c = "" -> "\\x94" [] c = "" -> "\\x95" [] c = "" -> "\\x96"
      [] c = "" -> "\\x97" [] c = "" -> "\\x98" [] c = "" -> "\\x99" [] c = "" -> "\\x9a"
      [] c = "" -> "\\x9b" [] c = "" -> "\\x9c" [] c = "" -> "\\x9d" [] c = "" -> "\\x9e"
      [] c = "" -> "\\x9f" [] c = " " -> "\\xa0" [] c = "­" -> "\\xad"
      [] OTHER -> c

RECURSIVE ReprChars(_, _)
ReprChars(text, q) ==
    IF text = "" THEN ""
    ELSE ReprChar(SubSeq(text, 1, 1), q) \o ReprChars(SubSeq(text, 2, Len(text)), q)

HasChar(text, c) == \E i \in 1..Len(text) : SubSeq(text, i, i) = c

\* repr() of a string: between double quotes when it holds a single quote and
\* no double quote, else between single quotes.
Repr(text) ==
    IF HasChar(text, "'") /\ ~HasChar(text, "\"")
    THEN "\"" \o ReprChars(text, "\"") \o "\""
    ELSE "'" \o ReprChars(text, "'") \o "'"

\* The format %.200R: no more than the first n characters of a text.
FirstChars(text, n) == IF Len(text) <= n THEN text ELSE SubSeq(text, 1, n)

\* type(v).__name__ as an AttributeError names it.
TypeName(v) ==
    CASE v.kind = "none" -> "NoneType"
      [] v.kind = "bool" -> "bool"
      [] v.kind = "int" -> "int"
      [] v.kind = "float" -> "float"
      [] v.kind = "str" -> "str"
      [] v.kind = "date" -> "datetime.date"
      [] OTHER -> "datetime.datetime"

\* What a property read or a helper call gave: the value returned or the
\* exception raised, and the lines it printed.
Gave(v) == [exc |-> NoExc, out |-> v, printed |-> <<>>]

GaveError(cls, msg) == [exc |-> Exc(cls, msg), out |-> PyNone, printed |-> <<>>]

\* int(port) of a string: white space around it is dropped, then comes an
\* optional sign, then decimal digits, single underscores allowed between
\* them; any other string is a ValueError whose message ends with the first
\* 200 characters of repr(text).
IntOf(text) ==
    LET body == RStrip(LStrip(text, WhiteSpace), WhiteSpace)
        signed == body # "" /\ SubSeq(body, 1, 1) \in {"+", "-"}
        digits == IF signed THEN SubSeq(body, 2, Len(body)) ELSE body
        n == DecimalOf(digits, 0, FALSE)
    IN  IF n < 0
        THEN GaveError("ValueError", "invalid literal for int() with base 10: "
                                        \o FirstChars(Repr(text), 200))
        ELSE IF signed /\ SubSeq(body, 1, 1) = "-" THEN Gave(PyInt(0 - n))
        ELSE Gave(PyInt(n))

\* ConfigurationService(use_ssh=..., ssh_key_path=..., ssh_local_bind_address=...,
\* ssh_local_bind_port=..., test_mode=...): the fields __init__ stores.
ConfigurationService(use_ssh_arg, ssh_key_path_arg, bind_address_arg, bind_port_arg, test_mode_arg) ==
    [_use_ssh |-> use_ssh_arg,
     _ssh_key_path |-> ssh_key_path_arg,
     _ssh_local_bind_address |-> bind_address_arg,
     _ssh_local_bind_port |-> bind_port_arg,
     _test_mode |-> test_mode_arg]

\* os.environ.get(key)
EnvironGet(environ, key) == IF key \in DOMAIN environ THEN environ[key] ELSE PyNone

\* raise MissingEnviron(key_name)
MissingEnviron(env_var_name) ==
    GaveError("MissingEnviron",
              "The required environment variable " \o env_var_name \o " is missing")

\* f'{legacy_key_name} has been deprecated. Please update your env file to
\* use {key_name}'
DeprecationNotice(legacy_key_name, key_name) ==
    legacy_key_name \o " has been deprecated. Please update your env file to use " \o key_name

\* A helper that never looks at the test mode.
CheckIgnoringTestMode(self, environ, key_name, assigned_value, error_flag, test_response, legacy_key_name) ==
    IF Truthy(assigned_value) THEN Gave(assigned_value)
    ELSE IF Truthy(EnvironGet(environ, key_name)) THEN Gave(EnvironGet(environ, key_name))
    ELSE IF Truthy(legacy_key_name) /\ Truthy(EnvironGet(environ, legacy_key_name.s))
         THEN [Gave(EnvironGet(environ, legacy_key_name.s))
                 EXCEPT !.printed = <<DeprecationNotice(legacy_key_name.s, key_name)>>]
    ELSE IF Truthy(error_flag) THEN MissingEnviron(key_name)
    ELSE Gave(PyNone)

\* _check_if_value_exists: the constructor's value when it is truthy, else
\* the test response in test mode, else the variable's value, else the
\* legacy variable's value (with a deprecation notice), else MissingEnviron
\* when error_flag is set, else None.
_check_if_value_exists(self, environ, key_name, assigned_value, error_flag, test_response, legacy_key_name) ==
    IF Truthy(assigned_value) THEN Gave(assigned_value)
    ELSE IF self._test_mode THEN Gave(test_response)
    ELSE IF Truthy(EnvironGet(environ, key_name)) THEN Gave(EnvironGet(environ, key_name))
    ELSE IF Truthy(legacy_key_name) /\ Truthy(EnvironGet(environ, legacy_key_name.s))
         THEN [Gave(EnvironGet(environ, legacy_key_name.s))
                 EXCEPT !.printed = <<DeprecationNotice(legacy_key_name.s, key_name)>>]
    ELSE IF Truthy(error_flag) THEN MissingEnviron(key_name)
    ELSE Gave(PyNone)

\* if res: if res.lower() == 'true': return True; return False
IsTrueText(res) ==
    IF Raised(res) THEN res
    ELSE IF ~Truthy(res.out) THEN Gave(PyBool(FALSE))
    ELSE IF res.out.kind # "str"
         THEN GaveError("AttributeError",
                        "'" \o TypeName(res.out) \o "' object has no attribute 'lower'")
    ELSE Gave(PyBool(LowerText(res.out.s) = "true"))

\* The use_ssh property: the helper is given the key path the constructor
\* stored as the assigned value.
use_ssh(self, environ) ==
    IsTrueText(_check_if_value_exists(self, environ, "USE_SSH", self._ssh_key_path,
                                      PyBool(FALSE), PyStr("false"), PyNone))

\* The ssh_local_bind_address property.
ssh_local_bind_address(self, environ) ==
    _check_if_value_exists(self, environ, "LOCAL_BIND_ADDRESS", self._ssh_local_bind_address,
                           PyBool(TRUE), PyStr("0.0.0.0"), PyStr("LOCAL_BIND_HOST"))

\* A read of ssh_local_bind_port enters the loop `while 1 == 1` when no port
\* was given to the constructor and LOCAL_BIND_PORT is 'random'.
DrawsPort(self, environ) ==
    /\ self._ssh_local_bind_port = PyNone
    /\ EnvironGet(environ, "LOCAL_BIND_PORT") = PyStr("random")

\* The ssh_local_bind_port property where it does not enter the loop: the
\* constructor's port, else int(port) of a LOCAL_BIND_PORT that is set and
\* not empty, else 5400.
ssh_local_bind_port(self, environ) ==
    IF self._ssh_local_bind_port # PyNone THEN Gave(self._ssh_local_bind_port)
    ELSE IF Truthy(EnvironGet(environ, "LOCAL_BIND_PORT"))
         THEN IntOf(EnvironGet(environ, "LOCAL_BIND_PORT").s)
    ELSE Gave(PyInt(5400))

ConfigCall(name, key_name, assigned_value, error_flag, legacy_key_name, res) ==
    [name |-> name, key_name |-> key_name, assigned_value |-> assigned_value,
     error_flag |-> error_flag, legacy_key_name |-> legacy_key_name,
     exc |-> res.exc, out |-> res.out, printed |-> res.printed]

NoConfigCall == ConfigCall("", "", PyNone, PyNone, PyNone, Gave(PyNone))

ConfigUnchanged ==
    /\ UNCHANGED <<db, conn, curs, page_size, last, catalog, ser>>
    /\ UNCHANGED <<asked, san, listening, pc, rand_port, probe, twin>>

\* config.use_ssh
UseSsh ==
    /\ settings' = [settings EXCEPT
                      !.call = ConfigCall("use_ssh", "USE_SSH", settings.self._ssh_key_path,
                                          PyBool(FALSE), PyNone,
                                          use_ssh(settings.self, settings.environ))]
    /\ ConfigUnchanged

\* config.ssh_local_bind_address
SshLocalBindAddress ==
    /\ settings' = [settings EXCEPT
                      !.call = ConfigCall("ssh_local_bind_address", "LOCAL_BIND_ADDRESS",
                                          settings.self._ssh_local_bind_address,
                                          PyBool(TRUE), PyStr("LOCAL_BIND_HOST"),
                                          ssh_local_bind_address(settings.self,
                                                                 settings.environ))]
    /\ ConfigUnchanged

AssignedValues == {PyNone, PyStr(""), PyStr("10.0.0.1")}

ErrorFlags == {PyNone, PyBool(FALSE), PyBool(TRUE)}

LegacyKeys == {PyNone, PyStr("LOCAL_BIND_HOST")}

\* config._check_if_value_exists(key_name, assigned_value, error_flag,
\*                               test_response, legacy_key_name)
CheckIfValueExists ==
    \E assigned_value \in AssignedValues, error_flag \in ErrorFlags,
       legacy_key_name \in LegacyKeys :
        /\ settings' = [settings EXCEPT
                          !.call = ConfigCall("_check_if_value_exists", "LOCAL_BIND_ADDRESS",
                                              assigned_value, error_flag, legacy_key_name,
                                              _check_if_value_exists(
                                                  settings.self, settings.environ,
                                                  "LOCAL_BIND_ADDRESS", assigned_value,
                                                  error_flag, PyStr("0.0.0.0"),
                                                  legacy_key_name))]
        /\ ConfigUnchanged

UseSshValues == {PyNone, PyStr("true"), PyStr("True"), PyStr("false")}

KeyPaths == {PyNone, PyStr("/root/.ssh/id_rsa")}

BindAddresses == {PyNone, PyStr(""), PyStr("0.0.0.0")}

LegacyBindHosts == {PyNone, PyStr("127.0.0.1")}

InitConfig ==
    /\ db = {}
    /\ conn = "none"
    /\ curs = "none"
    /\ page_size = 0
    /\ last = NoCall
    /\ catalog = TestCatalog
    /\ ser = <<>>
    /\ asked = 0
    /\ san = <<>>
    /\ listening = {}
    /\ pc = <<>>
    /\ rand_port = <<>>
    /\ probe = <<>>
    /\ twin = <<>>
    /\ \E use_ssh_arg \in BOOLEAN, ssh_key_path_arg \in KeyPaths,
          bind_address_arg \in {PyNone, PyStr("10.0.0.1")}, test_mode_arg \in BOOLEAN,
          env_use_ssh \in UseSshValues, env_address \in BindAddresses,
          env_host \in LegacyBindHosts :
            settings = [self |-> ConfigurationService(use_ssh_arg, ssh_key_path_arg,
                                                      bind_address_arg, PyNone, test_mode_arg),
                        environ |-> [k \in {"USE_SSH", "LOCAL_BIND_ADDRESS", "LOCAL_BIND_HOST"} |->
                                       CASE k = "USE_SSH" -> env_use_ssh
                                         [] k = "LOCAL_BIND_ADDRESS" -> env_address
                                         [] OTHER -> env_host],
                        call |-> NoConfigCall,
                        reads |-> <<>>]

NextConfig ==
    \/ UseSsh
    \/ SshLocalBindAddress
    \/ CheckIfValueExists

SpecConfig == InitConfig /\ [][NextConfig]_vars

(***************************************************************************)
(* Reads of ssh_local_bind_port on one ConfigurationService, one after     *)
(* the other, while other processes start and stop listening on ports.     *)
(* A read that enters the loop takes several steps: it draws a port,       *)
(* probes it, and returns it or draws again; settings.at tells where the   *)
(* read is, and other processes may act between any two of its steps.      *)
(***************************************************************************)
MaxReads == 2

BindPortValues ==
    {PyNone, PyStr(""), PyStr("random"), PyStr("5001"), PyStr("-1"), PyStr("+5001"),
     PyStr(" 5_001\n"), PyStr("5001 "), PyStr("5__1"), PyStr("5.5")}

BindPortRead(res) == [exc |-> res.exc, out |-> res.out, listening |-> listening]

\* config.ssh_local_bind_port, up to its return or to the head of the loop.
SshLocalBindPort ==
    /\ settings.at = "idle"
    /\ Len(settings.reads) < MaxReads
    /\ settings' =
          IF DrawsPort(settings.self, settings.environ)
          THEN [settings EXCEPT !.at = "draw"]
          ELSE [settings EXCEPT
                   !.call = ConfigCall("ssh_local_bind_port", "LOCAL_BIND_PORT",
                                       settings.self._ssh_local_bind_port, PyNone, PyNone,
                                       ssh_local_bind_port(settings.self, settings.environ)),
                   !.reads = Append(@, BindPortRead(
                                           ssh_local_bind_port(settings.self,
                                                               settings.environ)))]
    /\ ConfigUnchanged

\* rand_port = random.randint(5000, 50000)
BindPortDraw ==
    /\ settings.at = "draw"
    /\ \E p \in Ports : settings' = [settings EXCEPT !.at = "probe", !.rand_port = p]
    /\ ConfigUnchanged

\* if not self.is_port_in_use(rand_port): the loop goes on when it is in use.
BindPortProbe ==
    /\ settings.at = "probe"
    /\ settings' = [settings EXCEPT
                       !.at = IF is_port_in_use(settings.rand_port) THEN "draw" ELSE "return",
                       !.in_use = is_port_in_use(settings.rand_port)]
    /\ ConfigUnchanged

\* return rand_port
BindPortReturn ==
    /\ settings.at = "return"
    /\ settings' = [settings EXCEPT
                       !.at = "idle",
                       !.call = ConfigCall("ssh_local_bind_port", "LOCAL_BIND_PORT", PyNone,
                                           PyNone, PyNone, Gave(PyInt(settings.rand_port))),
                       !.reads = Append(@, BindPortRead(Gave(PyInt(settings.rand_port))))]
    /\ ConfigUnchanged

InitBindPort ==
    /\ db = {}
    /\ conn = "none"
    /\ curs = "none"
    /\ page_size = 0
    /\ last = NoCall
    /\ catalog = TestCatalog
    /\ ser = <<>>
    /\ asked = 0
    /\ san = <<>>
    /\ listening \in SUBSET Ports
    /\ pc = <<>>
    /\ rand_port = <<>>
    /\ probe = <<>>
    /\ twin = <<>>
    /\ \E bind_port_arg \in {PyNone, PyInt(5002)}, env_port \in BindPortValues :
            settings = [self |-> ConfigurationService(FALSE, PyNone, PyNone, bind_port_arg,
                                                      FALSE),
                        environ |-> [k \in {"LOCAL_BIND_PORT"} |-> env_port],
                        call |-> NoConfigCall,
                        reads |-> <<>>,
                        at |-> "idle",
                        rand_port |-> 0,
                        in_use |-> FALSE]

\* Another process starts to listen on a port, or stops.
BindPortListens ==
    /\ \E p \in Ports \ listening : listening' = listening \cup {p}
    /\ UNCHANGED <<db, conn, curs, page_size, last, catalog, ser>>
    /\ UNCHANGED <<asked, san, pc, rand_port, probe, twin, settings>>

BindPortCloses ==
    /\ \E p \in listening : listening' = listening \ {p}
    /\ UNCHANGED <<db, conn, curs, page_size, last, catalog, ser>>
    /\ UNCHANGED <<asked, san, pc, rand_port, probe, twin, settings>>

NextBindPort ==
    \/ SshLocalBindPort
    \/ BindPortDraw
    \/ BindPortProbe
    \/ BindPortReturn
    \/ BindPortListens
    \/ BindPortCloses

SpecBindPort == InitBindPort /\ [][NextBindPort]_vars

(***************************************************************************)
(* What the record of a call shows.                                        *)
(***************************************************************************)
ConnectingOps ==
    {"get_sql_dataframe", "get_sql_list_dicts", "get_sql_single_item_list", "get_single_result",
     "execute_simple", "execute_batch", "insert_many"}

StatementHelpers == ConnectingOps \ {"get_sql_dataframe"}

ReadOps ==
    {"get_sql_dataframe", "get_sql_list_dicts", "get_sql_single_item_list", "get_single_result"}

\* The places of the driver calls of one kind among the events of a call.
Positions(c, name) == {k \in 1..Len(c.events) : c.events[k].ev = name}

FailedExecutes(c) == {k \in Positions(c, "execute") : c.events[k].err # ""}

\* The call got its connection.
Connected(c) == c.events # <<>> /\ c.events[1].ev = "connect" /\ c.events[1].err = ""

(***************************************************************************)
(* C1: every public operation that opens a connection leaves no open       *)
(* connection and no open cursor when control is back with the caller,     *)
(* whether it returned or raised.  (The code has no tunnel.)               *)
(***************************************************************************)
C1_NothingLeftOpen ==
    last.op \in ConnectingOps => conn # "open" /\ curs # "open"

(***************************************************************************)
(* C2: when a statement sent by execute_simple, execute_batch, insert_many *)
(* or update_batch_from_df raises, the transaction is rolled back before   *)
(* the caller has the error: the call raises, a rollback follows the       *)
(* failed execute, no commit does, and the table holds exactly the rows it *)
(* held before the call, whatever the earlier statements of the batch did. *)
(***************************************************************************)
C2_RolledBack ==
    (IsMutation(last) /\ FailedExecutes(last) # {}) =>
        /\ last.exc # NoExc
        /\ db = last.db0
        /\ last.txn = last.db0
        /\ \A k \in FailedExecutes(last) :
              /\ \E j \in Positions(last, "rollback") : j > k
              /\ \A j \in Positions(last, "commit") : j < k

C2_Witness ==
    /\ last.op = "execute_simple"
    /\ Len(last.sql) = 2
    /\ last.sql[1].op = "insert"
    /\ last.sql[2] = Fail
    /\ last.db0 # {}
    /\ FailedExecutes(last) # {}
    /\ db = last.db0

(***************************************************************************)
(* C3, amended: a statement helper connects once; every helper but         *)
(* insert_many sends exactly one execute; insert_many sends one execute    *)
(* per page of at most 100 rows, in row order, none for an empty list, up  *)
(* to the first page that fails; after a failed execute nothing is sent    *)
(* again.                                                                  *)
(***************************************************************************)
C3_AtMostOnce ==
    last.op \in StatementHelpers =>
        LET executes == Positions(last, "execute")
            pages == (Len(last.params) + ExecuteValuesPageSize - 1) \div ExecuteValuesPageSize
        IN  /\ Cardinality(Positions(last, "connect")) = 1
            /\ ~Connected(last) => executes = {}
            /\ (Connected(last) /\ last.op # "insert_many") => Cardinality(executes) = 1
            /\ (Connected(last) /\ last.op = "insert_many") =>
                  /\ Cardinality(executes) <= pages
                  /\ FailedExecutes(last) = {} => Cardinality(executes) = pages
                  /\ \A k \in executes : Len(last.events[k].q) <= ExecuteValuesPageSize
            /\ \A k \in FailedExecutes(last) : \A j \in executes : j <= k

C3_Witness ==
    /\ last.op = "insert_many"
    /\ Len(last.params) > ExecuteValuesPageSize
    /\ Cardinality(Positions(last, "execute")) = 2
    /\ FailedExecutes(last) # {}

\* C3 as stated: every helper call is one connect and one execute.
C3_OneRoundTrip ==
    (last.op \in StatementHelpers /\ Connected(last)) =>
        /\ Cardinality(Positions(last, "connect")) = 1
        /\ Cardinality(Positions(last, "execute")) = 1

(***************************************************************************)
(* C4: when the driver raises while a statement helper executes a          *)
(* statement, the caller receives a DatabaseExecutionError that carries    *)
(* the driver's original message and the SQL text of the failed            *)
(* statement.  No helper has a try/except and main.py defines no such      *)
(* class: the driver's exception leaves the two with-blocks as raised.     *)
(***************************************************************************)
C4_Wrapped ==
    (last.op \in StatementHelpers /\ FailedExecutes(last) # {}) =>
        /\ last.exc.cls = "DatabaseExecutionError"
        /\ \A k \in FailedExecutes(last) :
              last.exc.msg = last.events[k].err /\ last.exc.sql = last.events[k].q
        /\ last.exc.has_sql

(***************************************************************************)
(* C5: calls reach the database in the order issued and a mutation call    *)
(* that returned has committed before the next call: every execute of it   *)
(* is followed by a commit and the table is what its transaction built;    *)
(* the next call starts from that table, and a read that follows returns   *)
(* its rows.                                                               *)
(***************************************************************************)
C5_CommittedBeforeNext ==
    [][(last.op \in {"execute_simple", "execute_batch", "insert_many"} /\ last.exc = NoExc) =>
          LET rows == {<<r.color_name, r.id>> : r \in last.txn}
              got == {last'.out.v[k] : k \in 1..Len(last'.out.v)}
          IN  /\ db = last.txn
              /\ \A k \in Positions(last, "execute") :
                    \E j \in Positions(last, "commit") : j > k
              /\ Connected(last') => last'.db0 = last.txn
              /\ (last'.op \in ReadOps /\ last'.exc = NoExc) =>
                    CASE last'.op = "get_sql_dataframe" ->
                            got = rows /\ Len(last'.out.v) = Cardinality(last.txn)
                      [] last'.op = "get_sql_list_dicts" ->
                            {<<d.color_name, d.id>> : d \in got} = rows
                            /\ Len(last'.out.v) = Cardinality(last.txn)
                      [] last'.op = "get_sql_single_item_list" ->
                            got = {r.color_name : r \in last.txn}
                            /\ Len(last'.out.v) = Cardinality(last.txn)
                      [] OTHER ->
                            IF last.txn = {} THEN last'.out = OutNone
                            ELSE /\ last'.out.kind = "value"
                                 /\ \E r \in last.txn : last'.out.v = r.color_name
      ]_vars

\* A read that returns the rows that earlier calls inserted and updated
\* (the table is empty before the first call).
C5_Witness ==
    /\ last.op = "get_sql_list_dicts"
    /\ last.exc = NoExc
    /\ Len(last.out.v) >= 2
    /\ \E k \in 1..Len(last.out.v) : last.out.v[k].color_name = PyStr("blue")
    /\ \E k \in 1..Len(last.out.v) : last.out.v[k].color_name = PyStr("red")

(***************************************************************************)
(* C6: _set_column_value returns the literal of the first matching rule:   *)
(* null gives col=null<sep>+space whatever the class; unquoted boolean 1   *)
(* or 0; unquoted other the bare text; quoted datetime                     *)
(* 'YYYY-MM-DDTHH:MM:SS' and the UTC offset +HHMM (nothing when naive);    *)
(* quoted date 'YYYY-MM-DD'; quoted other the text in single quotes.       *)
(***************************************************************************)
C6_RuleTable ==
    ser.done =>
        LET v == ser.val
            day == Pad4(v.d[1]) \o "-" \o Pad2(v.d[2]) \o "-" \o Pad2(v.d[3])
            clock == Pad2(v.t[1]) \o ":" \o Pad2(v.t[2]) \o ":" \o Pad2(v.t[3])
            offset == IF v.tz = Naive THEN "" ELSE v.tz[1] \o Pad2(v.tz[2]) \o Pad2(v.tz[3])
            literal ==
                IF v.kind = "none" \/ v = PyNaN THEN "null"
                ELSE IF ser.quote = 0 /\ v.kind = "bool" THEN (IF v.b THEN "1" ELSE "0")
                ELSE IF ser.quote = 0 THEN PyText(v)
                ELSE IF v.kind = "datetime" THEN "'" \o day \o "T" \o clock \o offset \o "'"
                ELSE IF v.kind = "date" THEN "'" \o day \o "'"
                ELSE "'" \o PyText(v) \o "'"
        IN  ser.out = ser.col \o "=" \o literal \o ser.sep \o " "

C6_Witness ==
    /\ ser.done
    /\ ser.quote = 1
    /\ ser.val.kind = "datetime"
    /\ ser.val.tz = <<"+", 5, 30>>
    /\ ser.out = "c_value='2021-01-01T12:00:00+0530', "

(***************************************************************************)
(* C7: _get_table_column_dtypes issues one metadata query and, when every  *)
(* requested column exists with a recognized type, returns a map whose     *)
(* keys are exactly the requested columns, 1 for character, text, date,    *)
(* timestamp and time types, 0 for integer, floating-point, numeric and    *)
(* boolean types.                                                          *)
(***************************************************************************)
C7_QuoteMap ==
    (last.op = "_get_table_column_dtypes" /\ Connected(last)) =>
        LET requested == {last.params[k] : k \in 1..Len(last.params)}
            listed == {catalog[k].column_name : k \in 1..Len(catalog)}
            type(c) == catalog[CHOOSE k \in 1..Len(catalog) : catalog[k].column_name = c].data_type
            textual == {"character varying", "nvarchar", "text", "character", "nchar", "bpchar"}
            temporal == {"date", "timestamp without time zone", "timestamp with time zone",
                         "time without time zone", "time with time zone"}
            numeric == {"numeric", "bigint", "smallint", "integer", "float4", "float8", "float",
                        "real", "double precision"}
            boolean == {"bool", "boolean"}
        IN  /\ Cardinality(Positions(last, "execute")) = 1
            /\ \A k \in Positions(last, "execute") : last.events[k].q = <<SelectColumns>>
            /\ (\A c \in requested :
                    c \in listed /\ type(c) \in textual \cup temporal \cup numeric \cup boolean) =>
                  /\ last.exc = NoExc
                  /\ last.out.kind = "dict"
                  /\ DOMAIN last.out.v = requested
                  /\ \A c \in requested :
                        last.out.v[c] = IF type(c) \in textual \cup temporal THEN 1 ELSE 0

C7_Witness ==
    /\ last.op = "_get_table_column_dtypes"
    /\ last.params = <<"color_name", "an_int">>
    /\ catalog = <<Column("color_name", "date"), Column("an_int", "integer")>>
    /\ last.out.kind = "dict"
    /\ last.out.v["color_name"] = 1
    /\ last.out.v["an_int"] = 0

(***************************************************************************)
(* C8, amended: when the metadata query succeeded and at least one         *)
(* requested column is absent from the table's metadata, the lookup raises *)
(* and returns no map; the error is MissingDatabaseColumn, naming the      *)
(* column, exactly when the first requested column that is absent or of an *)
(* unrecognized type is an absent one.                                     *)
(***************************************************************************)
C8_AbsentColumn ==
    (last.op = "_get_table_column_dtypes" /\ Connected(last)) =>
        LET listed == {catalog[k].column_name : k \in 1..Len(catalog)}
            type(c) == catalog[CHOOSE k \in 1..Len(catalog) : catalog[k].column_name = c].data_type
            absent(c) == c \notin listed
            problem(c) == absent(c) \/ type(c) \notin quoted_types \cup unquoted_types
            first == CHOOSE k \in 1..Len(last.params) :
                         problem(last.params[k]) /\ \A j \in 1..(k - 1) : ~problem(last.params[j])
        IN  (\E k \in 1..Len(last.params) : absent(last.params[k])) =>
                /\ last.exc # NoExc
                /\ last.out = OutNone
                /\ last.exc.cls = "MissingDatabaseColumn" <=> absent(last.params[first])
                /\ absent(last.params[first]) => last.exc.msg = last.params[first]

C8_Witness ==
    /\ last.op = "_get_table_column_dtypes"
    /\ last.params = <<"an_int", "color_name">>
    /\ catalog = <<Column("an_int", "integer")>>
    /\ last.exc.cls = "MissingDatabaseColumn"
    /\ last.exc.msg = "color_name"

\* C8 as stated: MissingDatabaseColumn whenever a requested column is absent.
C8_AlwaysMissingColumn ==
    (last.op = "_get_table_column_dtypes" /\ Connected(last)) =>
        LET listed == {catalog[k].column_name : k \in 1..Len(catalog)}
        IN  (\E k \in 1..Len(last.params) : last.params[k] \notin listed) =>
                last.exc.cls = "MissingDatabaseColumn" /\ last.out = OutNone

(***************************************************************************)
(* C9, amended: when the metadata query succeeded and a requested column   *)
(* exists with a type in neither list, the lookup raises, returns no map   *)
(* and gives the column no quoting class; the error is                     *)
(* MissingDTypeFromTypes, naming the column, exactly when the first        *)
(* requested column that is absent or of an unrecognized type is one of an *)
(* unrecognized type.                                                      *)
(***************************************************************************)
C9_UnrecognizedType ==
    (last.op = "_get_table_column_dtypes" /\ Connected(last)) =>
        LET listed == {catalog[k].column_name : k \in 1..Len(catalog)}
            type(c) == catalog[CHOOSE k \in 1..Len(catalog) : catalog[k].column_name = c].data_type
            unknown(c) == c \in listed /\ type(c) \notin quoted_types \cup unquoted_types
            problem(c) == c \notin listed \/ unknown(c)
            first == CHOOSE k \in 1..Len(last.params) :
                         problem(last.params[k]) /\ \A j \in 1..(k - 1) : ~problem(last.params[j])
        IN  (\E k \in 1..Len(last.params) : unknown(last.params[k])) =>
                /\ last.exc # NoExc
                /\ last.out = OutNone
                /\ last.exc.cls = "MissingDTypeFromTypes" <=> unknown(last.params[first])
                /\ unknown(last.params[first]) => last.exc.msg = last.params[first]

C9_Witness ==
    /\ last.op = "_get_table_column_dtypes"
    /\ last.params = <<"color_name", "an_int">>
    /\ catalog = <<Column("color_name", "text"), Column("an_int", "json")>>
    /\ last.exc.cls = "MissingDTypeFromTypes"
    /\ last.exc.msg = "an_int"

\* C9 as stated: MissingDTypeFromTypes whenever a requested column has a
\* type of neither list.
C9_AlwaysUnrecognized ==
    (last.op = "_get_table_column_dtypes" /\ Connected(last)) =>
        LET listed == {catalog[k].column_name : k \in 1..Len(catalog)}
            type(c) == catalog[CHOOSE k \in 1..Len(catalog) : catalog[k].column_name = c].data_type
        IN  (\E k \in 1..Len(last.params) :
                 /\ last.params[k] \in listed
                 /\ type(last.params[k]) \notin quoted_types \cup unquoted_types) =>
                last.exc.cls = "MissingDTypeFromTypes" /\ last.out = OutNone

(***************************************************************************)
(* C10: in update_batch_from_df, when the catalog lookup raises            *)
(* MissingDatabaseColumn or MissingDTypeFromTypes (as it does for every    *)
(* column the table lacks or cannot classify), no update statement has     *)
(* been sent and none is sent afterwards: the metadata query is the only   *)
(* execute of the call and the table is unchanged.                         *)
(***************************************************************************)
C10_FailFast ==
    (last.op = "update_batch_from_df" /\ Connected(last)) =>
        LET cols == last.params[2] \o last.params[3]
            listed == {catalog[k].column_name : k \in 1..Len(catalog)}
            type(c) == catalog[CHOOSE k \in 1..Len(catalog) : catalog[k].column_name = c].data_type
            problem(c) == c \notin listed \/ type(c) \notin quoted_types \cup unquoted_types
            lookup_raised == last.exc.cls \in {"MissingDatabaseColumn", "MissingDTypeFromTypes"}
        IN  /\ (\E k \in 1..Len(cols) : problem(cols[k])) => lookup_raised
            /\ lookup_raised =>
                  /\ db = last.db0
                  /\ Cardinality(Positions(last, "execute")) = 1
                  /\ \A k \in Positions(last, "execute") : last.events[k].q = <<SelectColumns>>

C10_Witness ==
    /\ last.op = "update_batch_from_df"
    /\ last.exc.cls = "MissingDTypeFromTypes"
    /\ Len(last.params[1]) = 2
    /\ \A n \in 1..2 : Matching(last.db0, last.params[1][n].v.id.n) # {}
    /\ db = last.db0

(***************************************************************************)
(* C11, amended: after update_batch_from_df returns, every table row whose *)
(* identifier is that of some row of the dataframe holds the update value  *)
(* of one of these rows: of those that repeat no earlier row (a row equal  *)
(* to an earlier one in the update and identifier columns is dropped), the *)
(* one with the greatest index label, the rows being read by label 0, 1,   *)
(* ... and sent in that order; every other table row is as it was before   *)
(* the call, and no row was added or removed.                              *)
(***************************************************************************)
FrameMatches(df, r) == {n \in 1..Len(df) : df[n].v.id = PyInt(r.id)}

\* The rows of FrameMatches that repeat no earlier row in the columns cols.
FirstOfTheirKind(df, r, cols) ==
    {n \in FrameMatches(df, r) :
        \A j \in 1..(n - 1) : Project(df[j], cols) # Project(df[n], cols)}

\* Of these rows, the one with the greatest label.
LastMatch(df, r, cols) ==
    CHOOSE n \in FirstOfTheirKind(df, r, cols) :
        \A j \in FirstOfTheirKind(df, r, cols) : df[j].label <= df[n].label

C11_LastRowWins ==
    (last.op = "update_batch_from_df" /\ last.exc = NoExc) =>
        /\ {r.id : r \in db} = {r.id : r \in last.db0}
        /\ \A r \in db :
              IF FrameMatches(last.params[1], r) = {}
              THEN r \in last.db0
              ELSE r.color_name
                      = last.params[1][LastMatch(last.params[1], r,
                                                 last.params[2] \o last.params[3])]
                            .v[last.params[2][1]]

\* A call that returned for a frame of three rows with one identifier and
\* the labels 1, 0, 2, the third row repeating the first: the table row ends
\* with the color of the first row (label 1), not of the second (label 0).
C11_Witness ==
    /\ last.op = "update_batch_from_df"
    /\ last.exc = NoExc
    /\ Len(last.params[1]) = 3
    /\ last.params[1][1].v = last.params[1][3].v
    /\ last.params[1][1].v.id = last.params[1][2].v.id
    /\ last.params[1][1].v.color_name # last.params[1][2].v.color_name
    /\ last.params[1][1].label > last.params[1][2].label
    /\ \E r \in db :
          /\ FrameMatches(last.params[1], r) # {}
          /\ r \notin last.db0
          /\ r.color_name = last.params[1][1].v.color_name
    /\ \E r \in db : FrameMatches(last.params[1], r) = {}

\* C11 as stated: every table row whose identifier is that of a dataframe
\* row holds that dataframe row's update value, and the other rows are
\* unchanged.
C11_EveryFrameRow ==
    (last.op = "update_batch_from_df" /\ last.exc = NoExc) =>
        \A r \in db :
            IF FrameMatches(last.params[1], r) = {}
            THEN r \in last.db0
            ELSE \A n \in FrameMatches(last.params[1], r) :
                    r.color_name = last.params[1][n].v[last.params[2][1]]

(***************************************************************************)
(* C12: a batch mutation given an empty row list (execute_batch with no    *)
(* rows, update_batch_from_df with a dataframe of no rows) is a no-op: on  *)
(* a server that accepts the connection it sends no statement and raises   *)
(* no error.                                                               *)
(***************************************************************************)
EmptyBatch(c) ==
    \/ c.op = "execute_batch" /\ c.params = <<>>
    \/ c.op = "update_batch_from_df" /\ c.params[1] = <<>>

C12_EmptyIsNoOp ==
    (EmptyBatch(last) /\ \A k \in Positions(last, "connect") : last.events[k].err = "") =>
        /\ Positions(last, "execute") = {}
        /\ last.exc = NoExc

(***************************************************************************)
(* C13: execute_batch groups the rows into pages of at most page_size      *)
(* rows: no execute carries the statements of more rows than the page size *)
(* of the instance, and the executes together carry the statement of every *)
(* row once, in row order.                                                 *)
(***************************************************************************)
RECURSIVE Sent(_, _)
Sent(c, k) ==
    IF k = 0 THEN <<>>
    ELSE IF c.events[k].ev = "execute" THEN Sent(c, k - 1) \o c.events[k].q
    ELSE Sent(c, k - 1)

C13_PagesOfPageSize ==
    (last.op = "execute_batch" /\ Connected(last) /\ page_size > 0 /\ last.exc = NoExc) =>
        /\ \A k \in Positions(last, "execute") : Len(last.events[k].q) <= page_size
        /\ Sent(last, Len(last.events)) = FormatAll(last.sql, convert_nan_to_none(last.params))

(***************************************************************************)
(* C14, amended: the page size is sticky per instance.  While none is      *)
(* stored, an execute_batch call stores the page size its caller passed,   *)
(* and the default of the re-entrant inner call does not replace it; a     *)
(* caller that passes 0 stores nothing, and the inner call, when the       *)
(* connection is made, stores its default.  Once a page size is stored,    *)
(* every later execute_batch call keeps it, also a call that passes        *)
(* another page size.                                                      *)
(***************************************************************************)
C14_Sticky ==
    [][/\ page_size # 0 => page_size' = page_size
       /\ (page_size = 0 /\ asked' # 0) => page_size' = asked'
       /\ (page_size = 0 /\ asked' = 0) =>
             page_size' = IF Connected(last') THEN DefaultPageSize ELSE 0]_vars

C14_Witness ==
    /\ last.op = "execute_batch"
    /\ Connected(last)
    /\ page_size = 1
    /\ asked = MaxRows
    /\ asked # page_size

\* C14 as stated: the first caller's value is kept unless a later caller
\* passes a page size of its own, which then replaces it.
C14_KeptUnlessOverridden ==
    [][asked' # 0 =>
          page_size' = IF page_size = 0 \/ asked' # DefaultPageSize THEN asked'
                       ELSE page_size]_vars

(***************************************************************************)
(* C15: an insert_many call that got its connection makes one              *)
(* execute_values call, and every statement it sends carries the values of *)
(* its row bound by the driver and not written into the text (None         *)
(* arrives as NULL, a string as itself).  A call that returns has sent all *)
(* the rows, and after the last execute the method commits exactly once,   *)
(* before its cursor is closed.  (Leaving the connection block then calls  *)
(* commit once more, with nothing left to commit.)                         *)
(***************************************************************************)
C15_OneBulkCallOneCommit ==
    (last.op = "insert_many" /\ Connected(last)) =>
        LET rows == convert_nan_to_none(last.params)
            sent == Sent(last, Len(last.events))
            closed == CHOOSE k \in Positions(last, "cursor_close") : TRUE
            own == {k \in Positions(last, "commit") : k < closed}
        IN  /\ Cardinality(Positions(last, "execute_values")) = 1
            /\ \A k \in Positions(last, "execute") :
                  \E j \in Positions(last, "execute_values") : j < k
            /\ Len(sent) <= Len(rows)
            /\ \A k \in 1..Len(sent) :
                  /\ sent[k].op = "insert"
                  /\ sent[k].id = rows[k].v[2].n
                  /\ rows[k].v[1].kind = "none" => sent[k].color_name = PyNone
                  /\ rows[k].v[1].kind = "str" => sent[k].color_name = rows[k].v[1]
            /\ Cardinality(Positions(last, "cursor_close")) = 1
            /\ last.exc = NoExc =>
                  /\ Len(sent) = Len(rows)
                  /\ Cardinality(own) = 1
                  /\ \A k \in own : \A j \in Positions(last, "execute") : j < k
                  /\ Cardinality(Positions(last, "commit") \ own) = 1
                  /\ db = last.txn

\* A call that returns after inserting two rows, the first given as a list.
C15_Witness ==
    /\ last.op = "insert_many"
    /\ last.exc = NoExc
    /\ Len(last.params) = 2
    /\ last.params[1].kind = "list"
    /\ last.params[1].v[1] = PyStr("red")
    /\ Positions(last, "execute_values") # {}
    /\ Cardinality(db) = Cardinality(last.db0) + 2

(***************************************************************************)
(* C16: convert_nan_to_none, given rows that are lists or tuples, returns  *)
(* as many rows, each with as many values in the same order, where every   *)
(* NaN, +Infinity and -Infinity has become None and every other value is   *)
(* as it was: no NaN or Infinity is left for the driver.                   *)
(***************************************************************************)
C16_NoNanOrInfinityLeft ==
    san.done =>
        /\ Len(san.out) = Len(san.params)
        /\ \A r \in 1..Len(san.params) :
              /\ Len(san.out[r].v) = Len(san.params[r].v)
              /\ \A k \in 1..Len(san.params[r].v) :
                    san.out[r].v[k] = IF san.params[r].v[k] \in {PyNaN, PyInf, PyNegInf}
                                      THEN PyNone
                                      ELSE san.params[r].v[k]

(***************************************************************************)
(* C17: an execute_batch call with rows, once connected, makes exactly one *)
(* execute, whose text is the caller's template filled with the values of  *)
(* each row (str() of each), one statement per row in row order, joined by *)
(* ';'.  When the execute succeeds the method commits once, after it and   *)
(* before its cursor is closed; it makes no execute per statement.         *)
(***************************************************************************)
C17_OneStatementPerRow ==
    (last.op = "execute_batch" /\ Connected(last) /\ last.params # <<>>) =>
        LET rows == convert_nan_to_none(last.params)
            executes == Positions(last, "execute")
            closed == CHOOSE k \in Positions(last, "cursor_close") : TRUE
            own == {k \in Positions(last, "commit") : k < closed}
        IN  /\ Cardinality(executes) = 1
            /\ \A e \in executes :
                  /\ Len(last.events[e].q) = Len(rows)
                  /\ \A k \in 1..Len(rows) :
                        /\ last.events[e].q[k].op = last.sql.op
                        /\ last.events[e].q[k].id = rows[k].v[2].n
                        /\ last.events[e].q[k].color_name = PyStr(PyText(rows[k].v[1]))
                  /\ \A k \in own : e < k
            /\ Cardinality(Positions(last, "cursor_close")) = 1
            /\ Cardinality(own) = IF last.exc = NoExc THEN 1 ELSE 0

C17_Witness ==
    /\ last.op = "execute_batch"
    /\ last.exc = NoExc
    /\ Len(last.params) = 2
    /\ last.params[1].v[1] # last.params[2].v[1]
    /\ last.params[1].v[2] # last.params[2].v[2]
    /\ Cardinality(Positions(last, "execute")) = 1
    /\ db # last.db0

(***************************************************************************)
(* C18: the random port selection never returns a port that the probe      *)
(* reported busy: a manager that is about to return a port, or has         *)
(* returned it, last probed that very port and the probe reported it free. *)
(***************************************************************************)
HasPort(m) == pc[m] \in {"return", "done", "bound", "failed"}

C18_ReturnedPortProbedFree ==
    \A m \in Managers :
        HasPort(m) => probe[m].port = rand_port[m] /\ ~probe[m].in_use

C18_Witness ==
    \E m \in Managers :
        /\ pc[m] = "done"
        /\ probe[m].port = rand_port[m]
        /\ listening # {}
        /\ rand_port[m] \notin listening

(***************************************************************************)
(* C19: two managers that each choose their port with the 'random' policy  *)
(* never hold the same port, however their draws, probes and binds         *)
(* interleave.                                                             *)
(***************************************************************************)
C19_NoCollision ==
    \A m \in Managers, n \in Managers :
        (m # n /\ pc[m] \in {"done", "bound"} /\ pc[n] \in {"done", "bound"}) =>
            rand_port[m] # rand_port[n]

(***************************************************************************)
(* C20: debug tracing has no effect on control flow.  Given the same call  *)
(* on the same table and the same answers of the server, the instance with *)
(* the debug flag and the one without make the same driver calls in the    *)
(* same order, return the same result, raise the same error and leave the  *)
(* same table, connection, cursor and page size; the lines that start     *)
(* with DEBUG: are printed by the one with the flag only, and every other  *)
(* line (the warning of a deprecated method) by both.                      *)
(***************************************************************************)
IsDebugLine(m) == Len(m.text) >= 7 /\ SubSeq(m.text, 1, 7) = "DEBUG: "

C20_DebugChangesNothing ==
    twin # <<>> =>
        /\ twin.events = last.events
        /\ twin.out = last.out
        /\ twin.exc = last.exc
        /\ twin.db = db
        /\ twin.conn = conn
        /\ twin.curs = curs
        /\ twin.page_size = page_size
        /\ twin.silent = SelectSeq(twin.sink, LAMBDA m : ~IsDebugLine(m))
        /\ \A k \in 1..Len(twin.silent) : ~IsDebugLine(twin.silent[k])

C20_Witness ==
    /\ twin # <<>>
    /\ last.op = "delete"
    /\ Len(twin.sink) = 4
    /\ twin.silent = <<DeleteWarning>>
    /\ twin.db # last.db0
    /\ twin.events = last.events
    /\ Positions(last, "commit") # {}

(***************************************************************************)
(* C21: use_ssh returns True if use_ssh=True was given to the constructor  *)
(* or if the USE_SSH environment variable is 'true', and False otherwise.  *)
(* The property hands the helper the stored key path, not the stored flag, *)
(* so the constructor's use_ssh never counts, and a key path or the test   *)
(* mode hides the environment variable.                                    *)
(***************************************************************************)
C21_UseSshFromConstructorOrEnviron ==
    settings.call.name = "use_ssh" =>
        /\ ~Raised(settings.call)
        /\ settings.call.out =
              PyBool(settings.self._use_ssh
                     \/ EnvironGet(settings.environ, "USE_SSH") = PyStr("true"))

(***************************************************************************)
(* C22: _check_if_value_exists returns a truthy value given to the         *)
(* constructor whatever the environment holds, and raises MissingEnviron   *)
(* exactly when error_flag is set, the constructor's value is empty, the   *)
(* service is not in test mode, and neither the variable key_name nor the  *)
(* legacy variable has a non-empty value.                                  *)
(***************************************************************************)
HelperCalls == {"_check_if_value_exists", "ssh_local_bind_address"}

LegacySet(c) ==
    Truthy(c.legacy_key_name) /\ Truthy(EnvironGet(settings.environ, c.legacy_key_name.s))

C22_MissingEnvironOrValue ==
    settings.call.name \in HelperCalls =>
        /\ Truthy(settings.call.assigned_value) =>
              ~Raised(settings.call) /\ settings.call.out = settings.call.assigned_value
        /\ settings.call.exc.cls = "MissingEnviron" <=>
              /\ Truthy(settings.call.error_flag)
              /\ ~Truthy(settings.call.assigned_value)
              /\ ~settings.self._test_mode
              /\ ~Truthy(EnvironGet(settings.environ, settings.call.key_name))
              /\ ~LegacySet(settings.call)

\* The helper raised MissingEnviron for a variable that is not set.
C22_Witness ==
    /\ settings.call.name = "_check_if_value_exists"
    /\ settings.call.exc.cls = "MissingEnviron"
    /\ settings.call.error_flag = PyBool(TRUE)
    /\ EnvironGet(settings.environ, "LOCAL_BIND_ADDRESS") = PyNone

\* The statement as first written: MissingEnviron whenever error_flag is
\* set, nothing was assigned and key_name is not set; an assigned value
\* always overrides.
C22_RaisesWheneverUnset ==
    settings.call.name \in HelperCalls =>
        /\ (/\ Truthy(settings.call.error_flag)
            /\ settings.call.assigned_value = PyNone
            /\ EnvironGet(settings.environ, settings.call.key_name) = PyNone)
              => settings.call.exc.cls = "MissingEnviron"
        /\ settings.call.assigned_value # PyNone =>
              settings.call.out = settings.call.assigned_value

(***************************************************************************)
(* C23: with the local bind port configured as 'random', every later read  *)
(* of ssh_local_bind_port on the same ConfigurationService returns the     *)
(* port the first read returned.  The property stores nothing: each read   *)
(* draws and probes anew.                                                  *)
(***************************************************************************)
RandomPolicy ==
    /\ settings.self._ssh_local_bind_port = PyNone
    /\ EnvironGet(settings.environ, "LOCAL_BIND_PORT") = PyStr("random")

C23_RandomPortFixedOnceChosen ==
    RandomPolicy =>
        \A k \in 1..Len(settings.reads) : settings.reads[k].out = settings.reads[1].out

(***************************************************************************)
(* C24: after insert_many or save_dataframe has inserted N rows, the table *)
(* holds those N rows in addition to the rows it held, with the values     *)
(* given, a NaN or an infinity as null.                                    *)
(***************************************************************************)
Nulled(v) == IF v \in {PyNaN, PyInf, PyNegInf} THEN PyNone ELSE v

Inserted(t, params) ==
    {Row(params[k].v[2].n, Nulled(params[k].v[1]), Cardinality(t) + k) : k \in 1..Len(params)}

C24_RoundTrip ==
    (last.op \in {"insert_many", "save_dataframe"} /\ Connected(last) /\ last.exc = NoExc) =>
        /\ db = last.db0 \cup Inserted(last.db0, last.params)
        /\ Cardinality(db) = Cardinality(last.db0) + Len(last.params)

(***************************************************************************)
(* C25: a public operation called without a cursor asks for one connection *)
(* and, when it gets it, enters itself once more with the cursor and the   *)
(* connection; the inner call asks for no connection and enters nothing    *)
(* again.  In every call, each entry with a cursor follows the entry       *)
(* without one of the same method, and there is one connect per entry      *)
(* without a cursor of an operation that connects.                         *)
(***************************************************************************)
\* The entries, without a cursor, of the operations that ask for a connection
\* (update_batch_from_df asks for none itself: it calls two of them).
OuterEntries(c) ==
    {k \in 1..Len(c.depth) : ~c.depth[k].curs /\ c.depth[k].method \in ConnectingOps}

C25_OneConnectionOneReentry ==
    /\ Cardinality(Positions(last, "connect")) = Cardinality(OuterEntries(last))
    /\ \A k \in 1..Len(last.depth) :
          last.depth[k].curs =>
              k > 1 /\ last.depth[k - 1] = [method |-> last.depth[k].method, curs |-> FALSE]
    /\ last.op \in ConnectingOps =>
          /\ Cardinality(Positions(last, "connect")) = 1
          /\ last.depth[1] = [method |-> last.op, curs |-> FALSE]
          /\ Len(last.depth) = IF Connected(last) THEN 2 ELSE 1

\* A statement ran in the inner call of execute_simple.
C25_Witness ==
    /\ last.op = "execute_simple"
    /\ Connected(last)
    /\ last.depth = <<[method |-> "execute_simple", curs |-> FALSE],
                      [method |-> "execute_simple", curs |-> TRUE]>>
    /\ Positions(last, "execute") # {}

(***************************************************************************)
(* C27: when the connection cannot be opened, the caller receives the      *)
(* driver's error after one connect attempt; the operation is not entered  *)
(* with a cursor, no cursor is made, nothing is sent, the table is as it   *)
(* was, and neither a connection nor a cursor is open.                     *)
(***************************************************************************)
Refused(c) == c.events # <<>> /\ c.events[1].ev = "connect" /\ c.events[1].err # ""

C27_ConnectFailurePropagates ==
    Refused(last) =>
        /\ last.exc = Exc("OperationalError", "connection refused")
        /\ last.events = <<Ev("connect", <<>>, "connection refused")>>
        /\ \A k \in 1..Len(last.depth) : ~last.depth[k].curs
        /\ db = last.db0
        /\ conn # "open"
        /\ curs # "open"

C27_Witness ==
    /\ Refused(last)
    /\ last.op = "execute_simple"
    /\ last.sql # <<>>

(***************************************************************************)
(* C26: update_batch_from_df generates one update statement for each       *)
(* distinct row of df[update_cols + static_cols], whatever the frame:      *)
(* with repeated rows, or with an index that is not 0..n-1.  The rows are  *)
(* fetched with df_.loc[i] for i in range(len(df_)), by label, and a label *)
(* that is missing after drop_duplicates or in the caller's index is a     *)
(* KeyError.                                                               *)
(***************************************************************************)
UpdatesSent(c) ==
    {<<k, j>> \in Positions(c, "execute") \X (1..(MaxRows + 2)) :
        j <= Len(c.events[k].q) /\ c.events[k].q[j].op = "update"}

DistinctRows(df, cols) == {Project(df[n], cols) : n \in 1..Len(df)}

C26_OneStatementPerDistinctRow ==
    (/\ last.op = "update_batch_from_df"
     /\ Connected(last)
     /\ last.params[2] = <<"color_name">>) =>
        /\ last.exc.cls # "KeyError"
        /\ Cardinality(UpdatesSent(last)) =
              Cardinality(DistinctRows(last.params[1], last.params[2] \o last.params[3]))
        /\ \A r \in DistinctRows(last.params[1], last.params[2] \o last.params[3]) :
              \E p \in UpdatesSent(last) :
                  last.events[p[1]].q[p[2]] = Stmt("update", r[2].n, r[1])

(***************************************************************************)
(* C28: under fair draws the retry loop returns, with a port of the range  *)
(* that the probe reported unused, whenever some port of the range is      *)
(* unused from some time on; and as long as every port of the range is in  *)
(* use it does not return.                                                 *)
(***************************************************************************)
Returned(m) == pc[m] = "done" /\ rand_port[m] \in Ports /\ ~probe[m].in_use

C28_EventuallyReturns ==
    /\ \A m \in Managers :
          (\E p \in Ports : <>[](p \notin listening)) => <>Returned(m)
    /\ [](listening = Ports) => [](\A m \in Managers : pc[m] \notin {"return", "done"})

\* A loop has returned a port that the probe reported unused, while another
\* port of the range is in use.
C28_Witness ==
    \E m \in Managers :
        /\ Returned(m)
        /\ listening # {}
        /\ rand_port[m] \notin listening

====
